---- MODULE Spec2Model ----
(***************************************************************************)
(* Smart_scheduler: the availability engine (calendar_integration.py), the *)
(* agent's turn handlers (conversation_manager.py) and the conversation    *)
(* flow manager (state_manager.py), as state machines.                     *)
(*                                                                         *)
(* A datetime is a number of minutes: day * 1440 + minute of the day, and  *)
(* day 0 is a Monday.  Calendar events and slots fall on whole minutes, so *)
(* int(seconds / 60) is the difference of two datetimes.                   *)
(***************************************************************************)
EXTENDS Integers, Sequences, FiniteSets, TLC

VARIABLES
    cal_busy,     \* the events already in the calendar, as (start, end) pairs
    cal_events,   \* the events created through create_event, in order
    cal_auth,     \* whether authenticate() succeeds
    cal_api,      \* whether the calendar API answers (no HttpError)
    service,      \* GoogleCalendarService.service is set
    now,          \* datetime.now()
    sessions,     \* StateManager.sessions: session id -> session
    reply,        \* the response of the last turn
    reported,     \* the state the last turn reported to its caller
    affirmed,     \* the sessions that answered yes in CONFIRMING_DETAILS
    pending,      \* the input being given to each driver in turn
    in_flight,    \* the websocket messages answered and not yet recorded
    last_call,    \* the last direct call of the StateManager, with what it returned
    served,       \* the number of turns the endpoints have answered
    req,          \* the arguments of the search of the last operation, if it made one
    found,        \* the TimeSlots that search returned
    phase         \* which operation ran last

vars == <<cal_busy, cal_events, cal_auth, cal_api, service, now, sessions,
          reply, reported, affirmed, pending, in_flight, last_call, served, req,
          found, phase>>

calendar_vars == <<cal_busy, cal_events, cal_auth, cal_api, service, now>>

session_vars ==
    <<sessions, reply, reported, affirmed, pending, in_flight, last_call, served>>

----------------------------------------------------------------------------
(* Datetimes *)

MinutesPerDay == 1440

At(day, hour, minute) == day * MinutesPerDay + hour * 60 + minute

DateOf(t) == t \div MinutesPerDay

\* datetime.weekday(): Monday = 0 ... Sunday = 6; day 0 is a Monday
Weekday(t) == DateOf(t) % 7

\* datetime.replace(hour=h, minute=0, second=0, microsecond=0)
ReplaceHour(t, h) == At(DateOf(t), h, 0)

Max(a, b) == IF a >= b THEN a ELSE b

Min(a, b) == IF a <= b THEN a ELSE b

----------------------------------------------------------------------------
(* calendar_integration.py: TimeSlot and GoogleCalendarService *)

WorkHoursStart == 9

WorkHoursEnd == 17

BufferMinutes == 15

\* TimeSlot.__init__: duration_minutes = int((end - start).total_seconds() / 60)
TimeSlot(start_time, end_time) ==
    [start_time |-> start_time, end_time |-> end_time,
     duration_minutes |-> end_time - start_time]

\* _find_slots_for_day, lines 223-233: the busy times kept for the day, each
\* with its start raised to day_start and its end lowered to day_end
RECURSIVE DayBusyTimes(_, _, _)
DayBusyTimes(busy_times, day_start, day_end) ==
    IF busy_times = <<>> THEN <<>>
    ELSE LET b == Head(busy_times)
             rest == DayBusyTimes(Tail(busy_times), day_start, day_end)
         IN IF \/ DateOf(b[1]) = DateOf(day_start)
               \/ DateOf(b[2]) = DateOf(day_start)
               \/ (DateOf(b[1]) < DateOf(day_start) /\ DateOf(day_start) < DateOf(b[2]))
            THEN <<<<Max(b[1], day_start), Min(b[2], day_end)>>>> \o rest
            ELSE rest

\* list.sort(key=lambda x: x[0]): stable, ascending start
RECURSIVE InsertByStart(_, _)
InsertByStart(b, sorted) ==
    IF sorted = <<>> THEN <<b>>
    ELSE IF b[1] < Head(sorted)[1] THEN <<b>> \o sorted
    ELSE <<Head(sorted)>> \o InsertByStart(b, Tail(sorted))

RECURSIVE SortByStart(_)
SortByStart(s) ==
    IF s = <<>> THEN <<>>
    ELSE InsertByStart(s[Len(s)], SortByStart(SubSeq(s, 1, Len(s) - 1)))

\* the gap test without the buffer: a slot may end right where the busy time starts
GapSlotIgnoringBuffer(current_time, busy_start, duration_minutes, buffer_minutes) ==
    IF current_time < busy_start /\ busy_start - current_time >= duration_minutes
    THEN <<[start_time |-> current_time, end_time |-> current_time + duration_minutes,
            duration_minutes |-> duration_minutes]>>
    ELSE <<>>

\* lines 243-249: the slot, if any, in the gap before one busy time
GapSlot(current_time, busy_start, duration_minutes, buffer_minutes) ==
    IF current_time < busy_start
       /\ busy_start - current_time >= duration_minutes + buffer_minutes
    THEN <<TimeSlot(current_time, current_time + duration_minutes)>>
    ELSE <<>>

\* lines 241-252: the loop over the day's busy times; returns the slots
\* followed by the final current_time
RECURSIVE WalkBusy(_, _, _, _, _)
WalkBusy(day_busy, current_time, duration_minutes, buffer_minutes, slots) ==
    IF day_busy = <<>> THEN <<slots, current_time>>
    ELSE LET b == Head(day_busy)
         IN WalkBusy(Tail(day_busy),
                     Max(current_time, b[2] + buffer_minutes),
                     duration_minutes, buffer_minutes,
                     slots \o GapSlot(current_time, b[1], duration_minutes, buffer_minutes))

\* lines 255-261: the slot at the end of the day
TrailingSlot(current_time, day_end, duration_minutes) ==
    IF current_time < day_end /\ day_end - current_time >= duration_minutes
    THEN <<TimeSlot(current_time, current_time + duration_minutes)>>
    ELSE <<>>

FindSlotsForDay(day_start, day_end, busy_times, duration_minutes, buffer_minutes) ==
    LET day_busy == SortByStart(DayBusyTimes(busy_times, day_start, day_end))
        w == WalkBusy(day_busy, day_start, duration_minutes, buffer_minutes, <<>>)
    IN w[1] \o TrailingSlot(w[2], day_end, duration_minutes)

\* events().list(timeMin, timeMax): the events that overlap the range
RECURSIVE EventsBetween(_, _, _)
EventsBetween(events, time_min, time_max) ==
    IF events = <<>> THEN <<>>
    ELSE LET b == Head(events)
             rest == EventsBetween(Tail(events), time_min, time_max)
         IN IF b[2] > time_min /\ b[1] < time_max THEN <<b>> \o rest ELSE rest

\* the primary calendar: what was there, and what create_event inserted
CalendarEvents ==
    cal_busy \o [i \in 1..Len(cal_events) |-> <<cal_events[i].start_time, cal_events[i].end_time>>]

\* get_busy_times: [] when authentication or the API fails
ServiceAfterBusyTimes == service \/ cal_auth

GetBusyTimes(start_datetime, end_datetime) ==
    IF ~ServiceAfterBusyTimes THEN <<>>
    ELSE IF ~cal_api THEN <<>>
    ELSE EventsBetween(CalendarEvents, start_datetime, end_datetime)

\* find_available_slots, lines 192-209: the loop over the days
RECURSIVE SearchDays(_, _, _, _, _, _, _)
SearchDays(current_time, end_date, busy_times, duration_minutes, work_hours_start, work_hours_end, buffer_minutes) ==
    IF DateOf(current_time) > DateOf(end_date) THEN <<>>
    ELSE LET next_day == ReplaceHour(current_time + MinutesPerDay, work_hours_start)
             later == SearchDays(next_day, end_date, busy_times, duration_minutes,
                                 work_hours_start, work_hours_end, buffer_minutes)
         IN IF Weekday(current_time) >= 5 THEN later
            ELSE FindSlotsForDay(current_time, ReplaceHour(current_time, work_hours_end),
                                 busy_times, duration_minutes, buffer_minutes) \o later

FindAvailableSlots(duration_minutes, start_date, end_date, work_hours_start, work_hours_end, buffer_minutes) ==
    SearchDays(ReplaceHour(start_date, work_hours_start), end_date,
               GetBusyTimes(start_date, end_date), duration_minutes,
               work_hours_start, work_hours_end, buffer_minutes)

\* create_event: the event id, or None when authentication or the API fails
CreateEventSucceeds == (service \/ cal_auth) /\ cal_api

----------------------------------------------------------------------------
(* User inputs.  An input is a text; Lex gives, for each text of the model, *)
(* what the code's substring tests and regular expressions find in it:      *)
(*   words      the keywords of the code's lists that occur in the text,    *)
(*   duration   the first match of (\d+)\s*(minutes?|hours?|mins?|hrs?),    *)
(*   selection  the first match of (\d+)|first|second|third|one|two|three,  *)
(*   time       the first match of the agent's time_pattern,                *)
(*   deadline   the groups of the first deadline pattern that matches.      *)

None == <<>>

Some(v) == <<v>>

DeadlineText == "before my flight that leaves friday at 6 pm"

\* Scenario D of the specification
ScenarioDText == "45 minutes before my flight that leaves friday at 6 pm"

\* a figure of 5000 digits, and a duration given with it
LongNumber == "99...9 (5000 digits)"

LongDuration == "99...9 (5000 digits) minutes"

Texts ==
    { "schedule a meeting", "30 minutes", "1 hour", "2 hrs", "tomorrow", "0", "2",
      "second", "yes", "no", "monday is ok", DeadlineText }

Lex(u) ==
    CASE u = "schedule a meeting" ->
           [words |-> {"schedule", "meeting", "meet"}, duration |-> None,
            selection |-> None, time |-> None, deadline |-> None]
      [] u = "30 minutes" ->
           [words |-> {}, duration |-> Some([num |-> 30, unit |-> "minutes"]),
            selection |-> Some([kind |-> "number", num |-> 30]), time |-> None,
            deadline |-> None]
      [] u = "1 hour" ->
           [words |-> {"1"}, duration |-> Some([num |-> 1, unit |-> "hour"]),
            selection |-> Some([kind |-> "number", num |-> 1]), time |-> None,
            deadline |-> None]
      [] u = "2 hrs" ->
           [words |-> {"2"}, duration |-> Some([num |-> 2, unit |-> "hrs"]),
            selection |-> Some([kind |-> "number", num |-> 2]), time |-> None,
            deadline |-> None]
      [] u = "0 minutes" ->
           [words |-> {}, duration |-> Some([num |-> 0, unit |-> "minutes"]),
            selection |-> Some([kind |-> "number", num |-> 0]), time |-> None,
            deadline |-> None]
      [] u = "45 mins" ->
           [words |-> {}, duration |-> Some([num |-> 45, unit |-> "mins"]),
            selection |-> Some([kind |-> "number", num |-> 45]), time |-> None,
            deadline |-> None]
      [] u = "2 hours" ->
           [words |-> {"2"}, duration |-> Some([num |-> 2, unit |-> "hours"]),
            selection |-> Some([kind |-> "number", num |-> 2]), time |-> None,
            deadline |-> None]
      [] u = "1 hr" ->
           [words |-> {"1"}, duration |-> Some([num |-> 1, unit |-> "hr"]),
            selection |-> Some([kind |-> "number", num |-> 1]), time |-> None,
            deadline |-> None]
      [] u = "1 minute" ->
           [words |-> {"1"}, duration |-> Some([num |-> 1, unit |-> "minute"]),
            selection |-> Some([kind |-> "number", num |-> 1]), time |-> None,
            deadline |-> None]
      [] u = "tomorrow" ->
           [words |-> {}, duration |-> None, selection |-> None,
            time |-> Some("tomorrow"), deadline |-> None]
      [] u = "0" ->
           [words |-> {}, duration |-> None,
            selection |-> Some([kind |-> "number", num |-> 0]), time |-> None,
            deadline |-> None]
      [] u = "2" ->
           [words |-> {"2"}, duration |-> None,
            selection |-> Some([kind |-> "number", num |-> 2]), time |-> None,
            deadline |-> None]
      [] u = "second" ->
           [words |-> {}, duration |-> None,
            selection |-> Some([kind |-> "word", word |-> "second"]), time |-> None,
            deadline |-> None]
      [] u = "yes" ->
           [words |-> {"yes"}, duration |-> None, selection |-> None, time |-> None,
            deadline |-> None]
      [] u = "no" ->
           [words |-> {}, duration |-> None, selection |-> None, time |-> None,
            deadline |-> None]
      [] u = "monday is ok" ->
           [words |-> {"monday", "ok"}, duration |-> None, selection |-> None,
            time |-> Some("monday"), deadline |-> None]
      \* the words time_pattern finds, when one of them is the time preference
      [] u \in {"monday", "tuesday", "wednesday", "thursday", "friday", "saturday",
                "sunday"} ->
           [words |-> {u}, duration |-> None, selection |-> None, time |-> Some(u),
            deadline |-> None]
      [] u \in {"this", "now"} ->
           [words |-> {}, duration |-> None, selection |-> None, time |-> Some(u),
            deadline |-> None]
      [] u = ScenarioDText ->
           [words |-> {"friday", "before"},
            duration |-> Some([num |-> 45, unit |-> "minutes"]),
            selection |-> Some([kind |-> "number", num |-> 45]),
            time |-> Some("friday"),
            \* the first deadline pattern wants "for" before the figure; the second
            \* matches, and (\d+)\s+(minutes?|hours?) finds "45 minutes" in the text
            deadline |-> Some([day |-> "friday", hour |-> 6, minute |-> 0,
                               ampm |-> "pm",
                               duration |-> Some([num |-> 45, unit |-> "minutes"])])]
      [] u = "weekend" ->
           [words |-> {"weekend"}, duration |-> None, selection |-> None, time |-> None,
            deadline |-> None]
      \* the digits are still text: int() has not been applied to them
      [] u = LongDuration ->
           [words |-> {}, duration |-> Some([digits |-> LongNumber, unit |-> "minutes"]),
            selection |-> Some([kind |-> "number", digits |-> LongNumber]), time |-> None,
            deadline |-> None]
      [] u = DeadlineText ->
           [words |-> {"friday", "before"}, duration |-> None,
            selection |-> Some([kind |-> "number", num |-> 6]),
            time |-> Some("friday"),
            \* the second deadline pattern: day, time, no duration group, and
            \* no (\d+)\s+(minutes?|hours?) anywhere in the text
            deadline |-> Some([day |-> "friday", hour |-> 6, minute |-> 0,
                               ampm |-> "pm", duration |-> None])]

\* any(word in user_input.lower() for word in words)
AnyWordIn(words, u) == Lex(u).words \cap words # {}

DayNames ==
    <<"monday", "tuesday", "wednesday", "thursday", "friday", "saturday", "sunday">>

DayNameSet == { DayNames[i] : i \in 1..7 }

\* days.index(day_name)
DayIndex(day_name) == CHOOSE i \in 0..6 : DayNames[i + 1] = day_name

\* the first day of the list that occurs in the text
RECURSIVE FirstDayFrom(_, _)
FirstDayFrom(u, i) ==
    IF i > 7 THEN None
    ELSE IF DayNames[i] \in Lex(u).words THEN Some(DayNames[i])
    ELSE FirstDayFrom(u, i + 1)

FirstDayIn(u) == FirstDayFrom(u, 1)

\* duration_num * 60 if 'hour' in duration_unit else duration_num
\* ('hour' is in "hour" and "hours", and in neither "hr" nor "hrs")
DurationMinutes(d) ==
    IF d.unit \in {"hour", "hours"} THEN d.num * 60 ELSE d.num

\* dateparser.parse(text, PREFER_DATES_FROM future): a library's answer.
\* "tomorrow" is the same time a day later and "now" is now; a day name is the
\* coming day of that name (today or a week later when it names today); the
\* texts that are no date give None; for the others the library may find a
\* date or not.
DateParser(u) ==
    CASE u = "tomorrow" -> { Some(now + MinutesPerDay) }
      [] u = "now" -> { Some(now) }
      [] u \in DayNameSet ->
           IF DayIndex(u) = Weekday(now)
           THEN { Some(ReplaceHour(now, 0)), Some(ReplaceHour(now, 0) + 7 * MinutesPerDay) }
           ELSE { Some(ReplaceHour(now, 0)
                       + ((DayIndex(u) - Weekday(now) + 7) % 7) * MinutesPerDay) }
      [] u = "monday is ok" ->
           { None, Some(ReplaceHour(now, 0)
                        + ((DayIndex("monday") - Weekday(now) + 7) % 7) * MinutesPerDay) }
      [] u \in {"schedule a meeting", "yes", "no", "second", "this", DeadlineText} -> { None }
      [] OTHER -> { None, Some(now) }

Take(s, n) == SubSeq(s, 1, Min(n, Len(s)))

RECURSIVE SelectSeq2(_, _, _)
SelectSeq2(s, Test(_, _), arg) ==
    IF s = <<>> THEN <<>>
    ELSE (IF Test(Head(s), arg) THEN <<Head(s)>> ELSE <<>>) \o SelectSeq2(Tail(s), Test, arg)

----------------------------------------------------------------------------
(* calendar_integration.py: CalendarManager *)

MaxSlotsReturned == 10

DefaultRangeDays == 7

\* lines 381-393: the search window on the day dateparser found
PreferenceWindow(parsed_time, u) ==
    IF "morning" \in Lex(u).words
    THEN <<ReplaceHour(parsed_time, 9), ReplaceHour(parsed_time, 12)>>
    ELSE IF "afternoon" \in Lex(u).words
    THEN <<ReplaceHour(parsed_time, 12), ReplaceHour(parsed_time, 17)>>
    ELSE IF "evening" \in Lex(u).words
    THEN <<ReplaceHour(parsed_time, 17), ReplaceHour(parsed_time, 20)>>
    ELSE <<ReplaceHour(parsed_time, 9), ReplaceHour(parsed_time, 17)>>

\* lines 398-400 and 412-414
DefaultWindow(date_range_days) ==
    <<now + 60, now + 60 + date_range_days * MinutesPerDay>>

\* lines 444-450
TimeOfDay(u) ==
    IF "morning" \in Lex(u).words THEN "morning"
    ELSE IF "afternoon" \in Lex(u).words THEN "afternoon"
    ELSE IF "evening" \in Lex(u).words THEN "evening"
    ELSE "none"

HourOf(t) == (t % MinutesPerDay) \div 60

\* lines 457-474: the slot is on the day named, in the part of the day named
OnSpecifiedDay(slot, u) ==
    /\ Some(DayNames[Weekday(slot.start_time) + 1]) = FirstDayIn(u)
    /\ \/ TimeOfDay(u) = "none"
       \/ TimeOfDay(u) = "morning" /\ 9 <= HourOf(slot.start_time) /\ HourOf(slot.start_time) < 12
       \/ TimeOfDay(u) = "afternoon" /\ 12 <= HourOf(slot.start_time) /\ HourOf(slot.start_time) < 17
       \/ TimeOfDay(u) = "evening" /\ 17 <= HourOf(slot.start_time) /\ HourOf(slot.start_time) < 20

\* the search window find_meeting_slots hands to find_available_slots
MeetingWindow(date_range_days, time_preference, parsed_time) ==
    IF time_preference # None /\ parsed_time # None
    THEN PreferenceWindow(parsed_time[1], time_preference[1])
    ELSE DefaultWindow(date_range_days)

\* find_meeting_slots(duration_minutes, date_range_days, time_preference), as
\* the agent calls it; parsed_time is dateparser's answer for the preference
FindMeetingSlots(duration_minutes, date_range_days, time_preference, parsed_time) ==
    LET window == MeetingWindow(date_range_days, time_preference, parsed_time)
        slots == FindAvailableSlots(duration_minutes, window[1], window[2],
                                    WorkHoursStart, WorkHoursEnd, BufferMinutes)
    IN IF time_preference # None /\ FirstDayIn(time_preference[1]) # None
       THEN Take(SelectSeq2(slots, OnSpecifiedDay, time_preference[1]), MaxSlotsReturned)
       ELSE Take(slots, MaxSlotsReturned)

\* schedule_meeting: the event handed to create_event
MeetingEvent(title, start_time, duration_minutes) ==
    [summary |-> title, start_time |-> start_time,
     end_time |-> start_time + duration_minutes]

----------------------------------------------------------------------------
(* state_manager.py: ConversationState, MeetingRequest, StateManager *)

IDLE == "idle"
WAITING_FOR_DURATION == "waiting_for_duration"
WAITING_FOR_TIME == "waiting_for_time"
PRESENTING_OPTIONS == "presenting_options"
WAITING_FOR_SELECTION == "waiting_for_selection"
CONFIRMING_DETAILS == "confirming_details"
CREATING_EVENT == "creating_event"
COMPLETED == "completed"
ERROR == "error"

ConversationState ==
    { IDLE, WAITING_FOR_DURATION, WAITING_FOR_TIME, PRESENTING_OPTIONS,
      WAITING_FOR_SELECTION, CONFIRMING_DETAILS, CREATING_EVENT, COMPLETED, ERROR }

\* MeetingRequest(): the fields the handlers read or write
MeetingRequest ==
    [duration_minutes |-> None, preferred_time |-> None,
     available_slots |-> <<>>, selected_slot |-> None]

\* no session under this id
NoSession == [state |-> "no session"]

\* create_session
NewSession ==
    [state |-> IDLE, meeting_request |-> MeetingRequest, conversation_history |-> <<>>]

\* set_state
SetState(S, session_id, state) ==
    IF S[session_id] = NoSession THEN S
    ELSE [S EXCEPT ![session_id].state = state]

\* update_meeting_request that leaves a field alone when its value is None
UpdateMeetingRequestSkippingNone(S, session_id, kwargs) ==
    IF S[session_id] = NoSession THEN S
    ELSE LET mr == S[session_id].meeting_request
         IN [S EXCEPT ![session_id].meeting_request =
                [k \in DOMAIN mr |->
                    IF k \in DOMAIN kwargs /\ kwargs[k] # None THEN kwargs[k] ELSE mr[k]]]

\* update_meeting_request(**kwargs): setattr for each key that is a field
UpdateMeetingRequest(S, session_id, kwargs) ==
    IF S[session_id] = NoSession THEN S
    ELSE LET mr == S[session_id].meeting_request
         IN [S EXCEPT ![session_id].meeting_request =
                [k \in DOMAIN mr |-> IF k \in DOMAIN kwargs THEN kwargs[k] ELSE mr[k]]]

\* add_conversation_turn
AddConversationTurn(S, session_id, user_input, agent_response) ==
    IF S[session_id] = NoSession THEN S
    ELSE [S EXCEPT ![session_id].conversation_history =
             Append(@, [user_input |-> user_input, agent_response |-> agent_response])]

\* create_session: the new session replaces whatever the id held
CreateSession(S, session_id) == [S EXCEPT ![session_id] = NewSession]

\* get_session: the session held under the id, or None. A session is in the
\* database exactly when it is in StateManager.sessions, so the load from the
\* database finds nothing for an id the dict does not hold.
GetSession(S, session_id) ==
    IF S[session_id] = NoSession THEN None ELSE Some(S[session_id])

\* the default of last_n_turns
DefaultLastTurns == 5

\* get_conversation_context returning conversation_history[:last_n_turns]
GetConversationContextFirst(S, session_id, last_n_turns) ==
    IF S[session_id] = NoSession THEN <<>>
    ELSE LET history == S[session_id].conversation_history
         IN SubSeq(history, 1, Min(last_n_turns, Len(history)))

\* get_conversation_context: conversation_history[-last_n_turns:]
GetConversationContext(S, session_id, last_n_turns) ==
    IF S[session_id] = NoSession THEN <<>>
    ELSE LET history == S[session_id].conversation_history
         IN IF last_n_turns = 0 THEN history
            ELSE SubSeq(history, Max(1, Len(history) - last_n_turns + 1), Len(history))

\* clear_session that empties the dict
ClearAllSessions(S, session_id) == [id \in DOMAIN S |-> NoSession]

\* clear_session: the id is dropped from the dict and from the database
ClearSession(S, session_id) == [S EXCEPT ![session_id] = NoSession]

----------------------------------------------------------------------------
(* time_parser.py: parse_deadline_request.  A confidence is kept in tenths. *)

DeadlineBufferMinutes == 30

DeadlineSearchHours == 8

DefaultDeadlineDuration == 60

\* lines 579-598: the meeting duration of a deadline request
DeadlineDuration(d) ==
    IF d.duration # None THEN DurationMinutes(d.duration[1])
    ELSE DefaultDeadlineDuration

\* the deadline with the day of today taken when the text names it
DeadlineDatetimeToday(d) ==
    LET days_ahead == DayIndex(d.day) - Weekday(now)
        hour == IF d.ampm = "pm" /\ d.hour # 12 THEN d.hour + 12
                ELSE IF d.ampm = "am" /\ d.hour = 12 THEN 0
                ELSE d.hour
    IN At(DateOf(now) + (IF days_ahead < 0 THEN days_ahead + 7 ELSE days_ahead),
          hour, d.minute)

\* lines 604-624: the deadline as a datetime
DeadlineDatetime(d) ==
    LET days_ahead == DayIndex(d.day) - Weekday(now)
        hour == IF d.ampm = "pm" /\ d.hour # 12 THEN d.hour + 12
                ELSE IF d.ampm = "am" /\ d.hour = 12 THEN 0
                ELSE d.hour
    IN At(DateOf(now) + (IF days_ahead <= 0 THEN days_ahead + 7 ELSE days_ahead),
          hour, d.minute)

ParseDeadlineRequest(u) ==
    LET d == Lex(u).deadline
    IN IF d # None /\ d[1].day \in DayNameSet
       THEN [confidence |-> 9, needs_clarification |-> FALSE,
             duration_minutes |-> Some(DeadlineDuration(d[1])),
             start_datetime |-> Some(DeadlineDatetime(d[1]) - DeadlineSearchHours * 60),
             must_end_before |-> Some(DeadlineDatetime(d[1]) - DeadlineBufferMinutes)]
       ELSE [confidence |-> 0, needs_clarification |-> FALSE,
             duration_minutes |-> None, start_datetime |-> None,
             must_end_before |-> None]

----------------------------------------------------------------------------
(* conversation_manager.py: SmartSchedulerAgent *)

MaxSlotData == 5

MaxOptions == 3

DefaultDuration == 60

\* x or default, for an Optional[int]
OrElse(x, default) == IF x = None \/ x[1] = 0 THEN default ELSE x[1]

\* str(slot): the day name, the date and the two times
FormattedTime(slot) ==
    [day |-> DayNames[Weekday(slot.start_time) + 1],
     start |-> slot.start_time, end |-> slot.end_time]

\* lines 624-629
SlotData(slot) ==
    [start_time |-> slot.start_time, end_time |-> slot.end_time,
     duration_minutes |-> slot.duration_minutes,
     formatted_time |-> FormattedTime(slot)]

EndsBy(slot, end_deadline) == slot.end_time <= end_deadline

\* filtered_slots.sort(key=lambda s: s.start_time, reverse=True): stable
RECURSIVE InsertLatestFirst(_, _)
InsertLatestFirst(x, sorted) ==
    IF sorted = <<>> THEN <<x>>
    ELSE IF x.start_time > Head(sorted).start_time THEN <<x>> \o sorted
    ELSE <<Head(sorted)>> \o InsertLatestFirst(x, Tail(sorted))

RECURSIVE SortLatestFirst(_)
SortLatestFirst(s) ==
    IF s = <<>> THEN <<>>
    ELSE InsertLatestFirst(s[Len(s)], SortLatestFirst(SubSeq(s, 1, Len(s) - 1)))

\* lines 547-603: whether the deadline branch runs its own search
IsDeadlineSearch(preferred_time) ==
    /\ preferred_time # None
    /\ "before" \in Lex(preferred_time[1]).words
    /\ ParseDeadlineRequest(preferred_time[1]).confidence > 5
    /\ ParseDeadlineRequest(preferred_time[1]).must_end_before # None

\* lines 547-603: the duration handed to find_meeting_slots
SearchDuration(duration_minutes, preferred_time) ==
    IF IsDeadlineSearch(preferred_time)
    THEN OrElse(ParseDeadlineRequest(preferred_time[1]).duration_minutes, duration_minutes)
    ELSE duration_minutes

\* lines 547-603: the slots the calendar manager returns for the request
SearchSlots(duration_minutes, preferred_time, parsed_time) ==
    IF IsDeadlineSearch(preferred_time)
    THEN SortLatestFirst(
             SelectSeq2(FindMeetingSlots(SearchDuration(duration_minutes, preferred_time),
                                         1, None, None),
                        EndsBy, ParseDeadlineRequest(preferred_time[1]).must_end_before[1]))
    ELSE FindMeetingSlots(duration_minutes, DefaultRangeDays, preferred_time, parsed_time)

\* the window of that search
SearchWindow(preferred_time, parsed_time) ==
    IF IsDeadlineSearch(preferred_time) THEN MeetingWindow(1, None, None)
    ELSE MeetingWindow(DefaultRangeDays, preferred_time, parsed_time)

\* _find_available_slots, lines 605-640: the result dict for the slots the
\* calendar manager returned, and the sessions after it
SlotsResult(S, session_id, duration_minutes, slots) ==
    LET slot_data == [i \in 1..Len(Take(slots, MaxSlotData)) |-> SlotData(slots[i])]
    IN IF slots = <<>>
       THEN [success |-> FALSE,
             error |-> IF ~ServiceAfterBusyTimes THEN "authentication" ELSE "no slots",
             slots |-> <<>>, S |-> S, found |-> slots]
       ELSE [success |-> TRUE, error |-> "", slots |-> slot_data,
             S |-> UpdateMeetingRequest(S, session_id,
                      [duration_minutes |-> Some(duration_minutes),
                       available_slots |-> slot_data]),
             found |-> slots]

\* _find_available_slots
FindAvailableSlotsResult(S, session_id, duration_minutes, preferred_time, parsed_time) ==
    SlotsResult(S, session_id, duration_minutes,
                SearchSlots(duration_minutes, preferred_time, parsed_time))

\* the request the search was made for
SearchRequest(duration_minutes, preferred_time, parsed_time) ==
    [duration |-> duration_minutes, buffer |-> BufferMinutes,
     start |-> SearchWindow(preferred_time, parsed_time)[1],
     end |-> SearchWindow(preferred_time, parsed_time)[2]]

\* available_slots[slot_index], as Python indexes a list
ListIndex(list, i) ==
    IF i >= 0 THEN list[i + 1] ELSE list[Len(list) + i + 1]

\* _schedule_meeting: the result, the sessions and the created events after it
ScheduleMeetingResult(S, session_id, slot_index) ==
    LET failed == [success |-> FALSE, S |-> S, events |-> cal_events, selected_slot |-> None]
    IN IF S[session_id] = NoSession THEN failed
       ELSE LET mr == S[session_id].meeting_request
            IN IF mr.available_slots = <<>> THEN failed
               ELSE IF slot_index >= Len(mr.available_slots) THEN failed
               \* an index below -len raises IndexError, and timedelta(minutes=None)
               \* raises TypeError: both are caught and no event is created
               ELSE IF slot_index < 0 - Len(mr.available_slots) THEN failed
               ELSE IF mr.duration_minutes = None THEN failed
               ELSE IF ~CreateEventSucceeds THEN failed
               ELSE LET selected_slot == ListIndex(mr.available_slots, slot_index)
                    IN [success |-> TRUE, selected_slot |-> selected_slot,
                        S |-> SetState(UpdateMeetingRequest(S, session_id,
                                          [selected_slot |-> Some(selected_slot)]),
                                       session_id, COMPLETED),
                        events |-> Append(cal_events,
                                      MeetingEvent("Meeting", selected_slot.start_time,
                                                   mr.duration_minutes[1]))]

\* a response: its wording, the text put into it (if any), and the options or
\* the meeting time it lists
Reply(text, about, options) == [text |-> text, about |-> about, options |-> options]

NoReply == Reply("", None, <<>>)

ASK_DURATION == "I'd be happy to help you schedule a meeting! How long should the meeting be?"
GOT_IT == "Got it, a {} meeting. When would you like to schedule this?"
HOW_LONG == "How long should the meeting be? For example, '30 minutes' or '1 hour'."
FOUND_MEETING == "Great! I found these available times for your meeting:"
FOUND_FOR == "Great! I found these available times for {}:"
FOUND == "Perfect! I found these available times:"
TROUBLE == "I'm having trouble accessing your calendar. [...] For now, could you tell me your preferred times and I'll help you schedule manually?"
NONE_IN_CALENDAR == "I couldn't find any available slots in your calendar. Would you like to try a different duration or time range?"
NONE_ON_DAY == "I couldn't find any available slots for {}. Would you like to try a different time on the same day, or see available times on other days?"
NONE_FOR == "I couldn't find any available slots for {}. Would you like to see all available times instead?"
SCHEDULED == "Perfect! I've scheduled your meeting for {}. Is there anything else I can help you with?"
SCHEDULE_TROUBLE == "I had trouble scheduling that meeting. Could you try selecting again?"
WHICH_SLOT == "Which time slot would you prefer? Please say the number (1, 2, or 3), the day name, or 'first', 'second', etc."

SchedulingWords == {"schedule", "meeting", "book", "find", "appointment"}

SuggestPhrases == {"suggest", "available day", "any day", "what days", "when available"}

AgreementWords ==
    {"okay", "ok", "yes", "sure", "good", "fine", "works", "perfect", "great"}

\* what a handler leaves behind: the sessions, the created events, the
\* response, the search it made (if any), and whether it called the calendar
Outcome(S, events, response, search) ==
    [S |-> S, events |-> events, reply |-> response, search |-> search]

NoSearch == None

Searched(request, result) == Some([req |-> request, found |-> result.found])

\* f"{duration_num} {duration_unit}"
DurationText(d) ==
    CASE d = [num |-> 30, unit |-> "minutes"] -> "30 minutes"
      [] d = [num |-> 1, unit |-> "hour"] -> "1 hour"
      [] d = [num |-> 2, unit |-> "hrs"] -> "2 hrs"
      [] d = [num |-> 0, unit |-> "minutes"] -> "0 minutes"

\* lines 386-391: the default at the end of _fallback_response
DefaultFallback(S, session_id, u) ==
    IF AnyWordIn(SchedulingWords, u)
    THEN Outcome(SetState(S, session_id, WAITING_FOR_DURATION), cal_events,
                 Reply(ASK_DURATION, None, <<>>), NoSearch)
    ELSE Outcome(S, cal_events, Reply(ASK_DURATION, None, <<>>), NoSearch)

\* lines 254-268
FallbackDuration(S, session_id, u) ==
    IF Lex(u).duration # None
    THEN Outcome(SetState(UpdateMeetingRequest(S, session_id,
                    [duration_minutes |-> Some(DurationMinutes(Lex(u).duration[1]))]),
                    session_id, WAITING_FOR_TIME),
                 cal_events,
                 Reply(GOT_IT, Some(DurationText(Lex(u).duration[1])), <<>>), NoSearch)
    ELSE Outcome(S, cal_events, Reply(HOW_LONG, None, <<>>), NoSearch)

\* lines 270-330
\* lines 277-290 and 299-330: the response to the result of the search
FallbackTimeResponse(session_id, u, suggest, result, request) ==
    LET search == Searched(request, result)
        options == Take(result.slots, MaxOptions)
        S2 == UpdateMeetingRequest(SetState(result.S, session_id, PRESENTING_OPTIONS),
                                   session_id, [available_slots |-> options])
    IN IF result.success /\ result.slots # <<>>
       THEN IF suggest THEN Outcome(S2, cal_events, Reply(FOUND_MEETING, None, options), search)
            ELSE IF FirstDayIn(u) # None
            THEN Outcome(S2, cal_events, Reply(FOUND_FOR, Some(u), options), search)
            ELSE Outcome(S2, cal_events, Reply(FOUND, None, options), search)
       ELSE IF suggest
       THEN Outcome(result.S, cal_events, Reply(NONE_IN_CALENDAR, None, <<>>), search)
       ELSE IF result.error = "authentication"
       THEN Outcome(result.S, cal_events, Reply(TROUBLE, None, <<>>), search)
       ELSE IF FirstDayIn(u) # None
       THEN Outcome(result.S, cal_events, Reply(NONE_ON_DAY, Some(u), <<>>), search)
       ELSE Outcome(result.S, cal_events, Reply(NONE_FOR, Some(u), <<>>), search)

FallbackTime(S, session_id, u, parsed_time) ==
    LET suggest == AnyWordIn(SuggestPhrases, u)
        S1 == IF suggest THEN S
              ELSE UpdateMeetingRequest(S, session_id, [preferred_time |-> Some(u)])
        duration == OrElse(S1[session_id].meeting_request.duration_minutes, DefaultDuration)
        preferred_time == IF suggest THEN None ELSE Some(u)
    IN FallbackTimeResponse(session_id, u, suggest,
           FindAvailableSlotsResult(S1, session_id, duration, preferred_time, parsed_time),
           SearchRequest(duration, preferred_time, parsed_time))

\* lines 336-342: the day the user names
DaySelection(u) == FirstDayIn(u)

\* lines 355-358: the first of the three options whose text names the day
RECURSIVE FirstOptionOn(_, _, _)
FirstOptionOn(day, options, i) ==
    IF i > Len(options) THEN None
    ELSE IF options[i].formatted_time.day = day THEN Some(i - 1)
    ELSE FirstOptionOn(day, options, i + 1)

WordIndex(word) ==
    CASE word \in {"first", "one"} -> 0
      [] word \in {"second", "two"} -> 1
      [] word \in {"third", "three"} -> 2

\* slot_index without the step from the 1-based number to the 0-based index
SlotIndexOneBased(S, session_id, u) ==
    IF Lex(u).selection = None THEN None
    ELSE IF Lex(u).selection[1].kind = "number" THEN Some(Lex(u).selection[1].num)
    ELSE Some(WordIndex(Lex(u).selection[1].word) + 1)

\* lines 348-373: slot_index, or None
SlotIndex(S, session_id, u) ==
    IF DaySelection(u) # None /\ AnyWordIn(AgreementWords, u)
    THEN LET i == FirstOptionOn(DaySelection(u)[1],
                     Take(S[session_id].meeting_request.available_slots, MaxOptions), 1)
         IN IF i = None THEN Some(2) ELSE i
    ELSE IF Lex(u).selection = None THEN None
    ELSE IF Lex(u).selection[1].kind = "number" THEN Some(Lex(u).selection[1].num - 1)
    ELSE Some(WordIndex(Lex(u).selection[1].word))

\* lines 332-384
FallbackOptions(S, session_id, u) ==
    LET slot_index == SlotIndex(S, session_id, u)
    IN IF slot_index = None
       THEN Outcome(S, cal_events, Reply(WHICH_SLOT, None, <<>>), NoSearch)
       ELSE LET result == ScheduleMeetingResult(S, session_id, slot_index[1])
            IN IF result.success
               THEN Outcome(SetState(result.S, session_id, COMPLETED), result.events,
                            Reply(SCHEDULED, None, <<result.selected_slot>>), NoSearch)
               ELSE Outcome(result.S, result.events,
                            Reply(SCHEDULE_TROUBLE, None, <<>>), NoSearch)

\* _fallback_response
FallbackResponse(S, session_id, u, parsed_time) ==
    IF S[session_id] = NoSession
    THEN Outcome(S, cal_events, Reply(ASK_DURATION, None, <<>>), NoSearch)
    ELSE CASE S[session_id].state = IDLE /\ AnyWordIn(SchedulingWords, u) ->
                Outcome(SetState(S, session_id, WAITING_FOR_DURATION), cal_events,
                        Reply(ASK_DURATION, None, <<>>), NoSearch)
           [] S[session_id].state = WAITING_FOR_DURATION -> FallbackDuration(S, session_id, u)
           [] S[session_id].state = WAITING_FOR_TIME ->
                FallbackTime(S, session_id, u, parsed_time)
           [] S[session_id].state = PRESENTING_OPTIONS -> FallbackOptions(S, session_id, u)
           [] OTHER -> DefaultFallback(S, session_id, u)

\* the model's answers: the call fails (or the answer is empty, short or
\* generic), an answer that names no calendar check, one that does
LLM_FAILS == "fails"
LLM_PLAIN == "Sure, I can help with that."
LLM_CHECK == "Let me check your calendar."
LOST_TRACK == "I'm sorry, I lost track of our conversation. Let's start over."
NONE_FOR_TIME == "I couldn't find any available slots for {}. Would you like to try a different time or see all available slots?"
NONE_AT_ALL == "I couldn't find any available slots. Would you like to try a different time or duration?"

LLMAnswers == { LLM_PLAIN, LLM_CHECK }

\* what the patterns of _detect_and_execute_function_calls find in the fixed
\* wording of a response: the keywords, the first duration, and the first
\* time word after the text put into it
WordingLex(text) ==
    LET wording(words, duration, time) ==
            [words |-> words, duration |-> duration, time |-> time]
    IN CASE text = ASK_DURATION -> wording({"meeting", "schedule"}, None, None)
         [] text = GOT_IT -> wording({"meeting", "schedule"}, None, Some("this"))
         [] text = HOW_LONG ->
              wording({"meeting"}, Some([num |-> 30, unit |-> "minutes"]), None)
         [] text = FOUND_MEETING -> wording({"meeting", "available"}, None, None)
         [] text \in {FOUND_FOR, FOUND, NONE_IN_CALENDAR, NONE_ON_DAY, NONE_FOR,
                      NONE_FOR_TIME, NONE_AT_ALL} -> wording({"available"}, None, None)
         [] text = TROUBLE -> wording({"schedule"}, None, Some("now"))
         [] text = SCHEDULED -> wording({"meeting", "schedule"}, None, None)
         [] text = SCHEDULE_TROUBLE -> wording({"meeting"}, None, None)
         [] OTHER -> wording({}, None, None)

FirstSome(a, b) == IF a # None THEN a ELSE b

\* the same for a whole response: the wording, the text put into it and the
\* formatted times it lists (each begins with its day name)
ReplyLex(r) ==
    LET w == WordingLex(r.text)
        x == IF r.about = None THEN [words |-> {}, duration |-> None, time |-> None]
             ELSE Lex(r.about[1])
        listed == IF r.options = <<>> THEN None ELSE Some(r.options[1].formatted_time.day)
    IN [words |-> w.words \cup x.words,
        duration |-> FirstSome(w.duration, x.duration),
        time |-> FirstSome(x.time, FirstSome(listed, w.time))]

\* lines 411-412: the last three turns, each the user's input and then the
\* agent's response
RECURSIVE RecentConversation(_)
RecentConversation(context) ==
    IF context = <<>> THEN [words |-> {}, duration |-> None, time |-> None]
    ELSE LET u == Lex(Head(context).user_input)
             r == ReplyLex(Head(context).agent_response)
             rest == RecentConversation(Tail(context))
         IN [words |-> u.words \cup r.words \cup rest.words,
             duration |-> FirstSome(u.duration, FirstSome(r.duration, rest.duration)),
             time |-> FirstSome(u.time, FirstSome(r.time, rest.time))]

LastTurns(history, n) == SubSeq(history, Max(1, Len(history) - n + 1), Len(history))

DirectRequestWords ==
    {"schedule", "find", "book", "meeting", "available", "meet", "need to meet"}

ContextWords == {"meeting", "schedule", "find time", "available"}

TimeWords ==
    {"sometime", "tuesday", "wednesday", "thursday", "friday", "monday", "saturday",
     "sunday", "afternoon", "morning", "evening"}

SchedulingContextWords == {"meeting", "schedule", "find time", "available", "book"}

NoCall == [should_find_slots |-> FALSE, duration_minutes |-> 0, preferred_time |-> None]

FindCall(duration_minutes, preferred_time) ==
    [should_find_slots |-> TRUE, duration_minutes |-> duration_minutes,
     preferred_time |-> preferred_time]

\* lines 415-486: the four cases
FunctionCall(S, session_id, response_text, u) ==
    LET recent == RecentConversation(LastTurns(S[session_id].conversation_history, 3))
        recent_duration == IF recent.duration = None THEN DefaultDuration
                           ELSE DurationMinutes(recent.duration[1])
    IN IF AnyWordIn(DirectRequestWords, u)
       THEN IF Lex(u).duration = None THEN NoCall
            ELSE FindCall(DurationMinutes(Lex(u).duration[1]),
                          IF "before" \in Lex(u).words THEN Some(u) ELSE Lex(u).time)
       ELSE IF Lex(u).time # None
       THEN IF recent.duration # None
            THEN FindCall(DurationMinutes(recent.duration[1]), Some(u))
            ELSE IF recent.words \cap ContextWords # {}
            THEN FindCall(DefaultDuration, Some(u))
            ELSE NoCall
       ELSE IF response_text = LLM_CHECK
       THEN FindCall(recent_duration, FirstSome(recent.time, Lex(u).time))
       ELSE IF AnyWordIn(TimeWords, u)
       THEN IF recent.words \cap SchedulingContextWords # {}
            THEN FindCall(recent_duration, Some(u))
            ELSE NoCall
       ELSE NoCall

\* lines 493-505: the response to the result of the search
FunctionCallResponse(call, result, request) ==
    IF result.success /\ result.slots # <<>>
    THEN Outcome(result.S, cal_events,
                 Reply(FOUND_MEETING, None, Take(result.slots, MaxOptions)),
                 Searched(request, result))
    ELSE IF call.preferred_time # None
    THEN Outcome(result.S, cal_events, Reply(NONE_FOR_TIME, call.preferred_time, <<>>),
                 Searched(request, result))
    ELSE Outcome(result.S, cal_events, Reply(NONE_AT_ALL, None, <<>>),
                 Searched(request, result))

\* lines 488-508: the search is made if one of the cases asked for it
ExecuteFunctionCall(S, session_id, response_text, call, parsed_time) ==
    IF call.should_find_slots /\ call.duration_minutes # 0
    THEN FunctionCallResponse(call,
             FindAvailableSlotsResult(S, session_id, call.duration_minutes,
                                      call.preferred_time, parsed_time),
             SearchRequest(call.duration_minutes, call.preferred_time, parsed_time))
    ELSE Outcome(S, cal_events, Reply(response_text, None, <<>>), NoSearch)

\* _detect_and_execute_function_calls
DetectAndExecuteFunctionCalls(S, session_id, response_text, u, parsed_time) ==
    ExecuteFunctionCall(S, session_id, response_text,
                        FunctionCall(S, session_id, response_text, u), parsed_time)

\* _process_user_input and _handle_gemini_response; llm is the model's answer
ProcessUserInput(S, session_id, u, llm, parsed_time) ==
    IF S[session_id] = NoSession
    THEN Outcome(S, cal_events, Reply(LOST_TRACK, None, <<>>), NoSearch)
    ELSE IF llm = LLM_FAILS THEN FallbackResponse(S, session_id, u, parsed_time)
    ELSE DetectAndExecuteFunctionCalls(S, session_id, llm, u, parsed_time)

\* the time preference the turn hands to find_meeting_slots, if it searches
TimePreference(S, session_id, u, llm) ==
    IF S[session_id] = NoSession THEN None
    ELSE IF llm = LLM_FAILS
    THEN IF S[session_id].state = WAITING_FOR_TIME /\ ~AnyWordIn(SuggestPhrases, u)
         THEN Some(u) ELSE None
    ELSE FunctionCall(S, session_id, llm, u).preferred_time

\* dateparser's possible answers for that preference
ParsedTimes(S, session_id, u, llm) ==
    IF TimePreference(S, session_id, u, llm) = None THEN { None }
    ELSE DateParser(TimePreference(S, session_id, u, llm)[1])

----------------------------------------------------------------------------
(* state_manager.py: ConversationFlowManager *)

FlowSchedulingWords == {"schedule", "meeting", "book", "calendar"}

ConfirmWords == {"yes", "confirm", "ok", "sure"}

\* _extract_duration: the first of the four patterns that matches.  In the
\* texts of the model (\d+)\s*h and (\d+)\s*m match only where the first two
\* patterns do, and no text holds both a minute and an hour figure
ExtractDuration(u) ==
    LET d == Lex(u).duration
    IN IF d = None THEN None
       ELSE IF d[1].unit \in {"minutes", "minute", "mins", "min"} THEN Some(d[1].num)
       ELSE Some(d[1].num * 60)

\* what handle_user_input leaves behind: the sessions, and the tuple it returns
FlowOutcome(S, response, next_state) ==
    [S |-> S, reply |-> Reply(response, None, <<>>), reported |-> next_state]

\* _handle_idle_state
HandleIdleState(S, session_id, u) ==
    IF AnyWordIn(FlowSchedulingWords, u)
    THEN FlowOutcome(SetState(S, session_id, WAITING_FOR_DURATION), ASK_DURATION,
                     WAITING_FOR_DURATION)
    ELSE FlowOutcome(S, "Hello! I can help you schedule meetings.", IDLE)

\* _handle_duration_state
HandleDurationState(S, session_id, u) ==
    IF ExtractDuration(u) # None /\ ExtractDuration(u) # Some(0)
    THEN FlowOutcome(SetState(UpdateMeetingRequest(S, session_id,
                                 [duration_minutes |-> ExtractDuration(u)]),
                              session_id, WAITING_FOR_TIME),
                     "Got it. When would you like to schedule this meeting?",
                     WAITING_FOR_TIME)
    ELSE FlowOutcome(S, "I couldn't understand the duration.", WAITING_FOR_DURATION)

\* _handle_time_state
HandleTimeState(S, session_id, u) ==
    FlowOutcome(SetState(UpdateMeetingRequest(S, session_id, [preferred_time |-> Some(u)]),
                         session_id, PRESENTING_OPTIONS),
                "Let me check your calendar for available times...", PRESENTING_OPTIONS)

\* _handle_options_state
HandleOptionsState(S, session_id, u) ==
    FlowOutcome(SetState(S, session_id, WAITING_FOR_SELECTION),
                "I found these available times: 1) Tuesday 2:00 PM, 2) Wednesday 10:00 AM.",
                WAITING_FOR_SELECTION)

\* _handle_selection_state
HandleSelectionState(S, session_id, u) ==
    LET chosen(selected_slot) ==
            FlowOutcome(SetState(UpdateMeetingRequest(S, session_id,
                                    [selected_slot |-> Some(selected_slot)]),
                                 session_id, CONFIRMING_DETAILS),
                        "Should I go ahead and create this meeting?", CONFIRMING_DETAILS)
    IN IF AnyWordIn({"1", "tuesday"}, u) THEN chosen([time |-> "Tuesday 2:00 PM"])
       ELSE IF AnyWordIn({"2", "wednesday"}, u) THEN chosen([time |-> "Wednesday 10:00 AM"])
       ELSE FlowOutcome(S, "Please select option 1 or 2.", WAITING_FOR_SELECTION)

\* _handle_confirmation_state
HandleConfirmationState(S, session_id, u) ==
    IF AnyWordIn(ConfirmWords, u)
    THEN FlowOutcome(SetState(S, session_id, CREATING_EVENT),
                     "Great! I'm creating the meeting now...", CREATING_EVENT)
    ELSE FlowOutcome(SetState(S, session_id, WAITING_FOR_TIME),
                     "No problem. When would you prefer to schedule the meeting?",
                     WAITING_FOR_TIME)

\* handle_user_input
HandleUserInput(S, session_id, u) ==
    IF S[session_id] = NoSession
    THEN FlowOutcome(S, "I'm sorry, I couldn't find your session. Please start over.", IDLE)
    ELSE CASE S[session_id].state = IDLE -> HandleIdleState(S, session_id, u)
           [] S[session_id].state = WAITING_FOR_DURATION -> HandleDurationState(S, session_id, u)
           [] S[session_id].state = WAITING_FOR_TIME -> HandleTimeState(S, session_id, u)
           [] S[session_id].state = PRESENTING_OPTIONS -> HandleOptionsState(S, session_id, u)
           [] S[session_id].state = WAITING_FOR_SELECTION ->
                HandleSelectionState(S, session_id, u)
           [] S[session_id].state = CONFIRMING_DETAILS ->
                HandleConfirmationState(S, session_id, u)
           [] OTHER -> FlowOutcome(S, "I'm not sure how to help with that. Let's start over.",
                                   IDLE)

----------------------------------------------------------------------------
(* The availability engine on its own: the inputs are drawn in the initial *)
(* state, the actions run one search.                                      *)

MaxBusy == 2

\* the day searched: a Tuesday, with a day before and a day after it
SearchDay == 8

TimePoints ==
    { At(SearchDay - 1, 22, 0),
      At(SearchDay, 8, 0), At(SearchDay, 9, 30), At(SearchDay, 10, 0),
      At(SearchDay, 16, 0), At(SearchDay, 16, 45), At(SearchDay, 18, 0),
      At(SearchDay, 19, 0), At(SearchDay, 20, 0) }

Intervals == { <<a, b>> \in TimePoints \X TimePoints : a < b }

RECURSIVE SeqsUpTo(_, _)
SeqsUpTo(S, n) ==
    IF n = 0 THEN { <<>> }
    ELSE LET shorter == SeqsUpTo(S, n - 1)
         IN shorter \cup { Append(s, x) : s \in { t \in shorter : Len(t) = n - 1 }, x \in S }

\* Scenario A of the specification: busy 10:00-11:00 and 14:00-15:30
ScenarioABusy ==
    << <<At(SearchDay, 10, 0), At(SearchDay, 11, 0)>>,
       <<At(SearchDay, 14, 0), At(SearchDay, 15, 30)>> >>

BusyLists == SeqsUpTo(Intervals, MaxBusy) \cup { ScenarioABusy }

Durations == { 30, 60 }

Buffers == { 0, BufferMinutes }

NoReq == [duration |-> 0, buffer |-> 0, start |-> 0, end |-> 0]

SessionIds == { "s1", "s2" }

NoInput == [input |-> "", todo |-> {}]

\* a call of the StateManager: its arguments and what it returned
Called(call, session_id, args, value) ==
    [call |-> call, session_id |-> session_id, args |-> args, value |-> value]

NothingCalled == Called("", "", None, None)

\* no conversation has taken place
NoConversation ==
    /\ cal_events = <<>>
    /\ reply = [id \in SessionIds |-> NoReply]
    /\ reported = [id \in SessionIds |-> IDLE]
    /\ affirmed = {}
    /\ pending = NoInput
    /\ in_flight = {}
    /\ last_call = NothingCalled
    /\ served = 0

InitSlots ==
    /\ cal_busy \in BusyLists
    /\ cal_auth = TRUE
    /\ cal_api = TRUE
    /\ service = TRUE
    /\ now = At(SearchDay, 8, 0)
    /\ sessions = [id \in SessionIds |-> NoSession]
    /\ NoConversation
    /\ \E d \in Durations, b \in Buffers :
          req = [duration |-> d, buffer |-> b,
                 start |-> At(SearchDay, WorkHoursStart, 0),
                 end |-> At(SearchDay + 1, WorkHoursStart, 0)]
    /\ found = <<>>
    /\ phase = "input"

\* one call of _find_slots_for_day, for the day of req.start
SlotsForDay ==
    /\ phase = "input"
    /\ found' = FindSlotsForDay(ReplaceHour(req.start, WorkHoursStart),
                                ReplaceHour(req.start, WorkHoursEnd),
                                cal_busy, req.duration, req.buffer)
    /\ phase' = "day"
    /\ UNCHANGED <<calendar_vars, session_vars, req>>

\* one call of find_available_slots, from req.start to req.end
AvailableSlots ==
    /\ phase = "input"
    /\ found' = FindAvailableSlots(req.duration, req.start, req.end,
                                   WorkHoursStart, WorkHoursEnd, req.buffer)
    /\ service' = ServiceAfterBusyTimes
    /\ phase' = "range"
    /\ UNCHANGED <<cal_busy, cal_events, cal_auth, cal_api, now, session_vars, req>>

NextSlots == SlotsForDay \/ AvailableSlots

SpecSlots == InitSlots /\ [][NextSlots]_vars

\* the busy intervals supplied to the search of the slot's day
Supplied == IF phase = "day" THEN cal_busy ELSE EventsBetween(cal_busy, req.start, req.end)

OnDateOf(b, slot) ==
    DateOf(b[1]) <= DateOf(slot.start_time) /\ DateOf(slot.start_time) <= DateOf(b[2])

\* C1: every slot emitted for a day ends at least buffer minutes before each
\* busy interval of that day starts, or starts at least buffer minutes after
\* it ends, whatever the number, order and overlap of the busy intervals.
C1_SlotNonOverlap ==
    phase \in {"day", "range"} =>
        \A i \in 1..Len(found) : \A j \in 1..Len(Supplied) :
            OnDateOf(Supplied[j], found[i]) =>
                \/ found[i].end_time <= Supplied[j][1] - req.buffer
                \/ found[i].start_time >= Supplied[j][2] + req.buffer

\* C2: every slot emitted for a day lies inside that day's work window:
\* work_start <= slot.start and slot.end <= work_end, for every busy list.
C2_DayContainment ==
    phase \in {"day", "range"} =>
        \A i \in 1..Len(found) :
            /\ ReplaceHour(found[i].start_time, WorkHoursStart) <= found[i].start_time
            /\ found[i].end_time <= ReplaceHour(found[i].start_time, WorkHoursEnd)

\* the cursor walk as the specification words it, over the day's busy intervals in
\* ascending start order (the list lines 223-236 prepare)
RECURSIVE CursorWalk(_, _, _, _, _)
CursorWalk(busy, cursor, work_end, duration, buffer) ==
    IF busy = <<>>
    THEN IF work_end - cursor >= duration
         THEN <<TimeSlot(cursor, cursor + duration)>> ELSE <<>>
    ELSE (IF Head(busy)[1] - cursor >= duration + buffer
          THEN <<TimeSlot(cursor, cursor + duration)>> ELSE <<>>)
         \o CursorWalk(Tail(busy), Max(cursor, Head(busy)[2] + buffer), work_end,
                       duration, buffer)

ScenarioASlots ==
    << TimeSlot(At(SearchDay, 9, 0), At(SearchDay, 9, 30)),
       TimeSlot(At(SearchDay, 11, 15), At(SearchDay, 11, 45)),
       TimeSlot(At(SearchDay, 15, 45), At(SearchDay, 16, 15)) >>

IsScenarioA ==
    cal_busy = ScenarioABusy /\ req.duration = 30 /\ req.buffer = BufferMinutes

----------------------------------------------------------------------------
(* The agent behind POST /api/chat, with no model to call: every turn is   *)
(* answered by _fallback_response.                                         *)

MaxTurns == 4

\* the day the conversation takes place: a Wednesday, at 10:00
Today == SearchDay + 1

\* Wednesday taken from 9 to 17, and a meeting on Thursday morning
SomeMeetings ==
    << <<At(Today, 9, 0), At(Today, 17, 0)>>,
       <<At(Today + 1, 10, 0), At(Today + 1, 11, 0)>> >>

\* one event over the whole of the coming week
WeekTaken == << <<At(Today, 0, 0), At(Today + 8, 0, 0)>> >>

Calendars == { SomeMeetings, WeekTaken }

\* the state a turn reports: session.state.value if session else IDLE
StateOf(S, session_id) ==
    IF S[session_id] = NoSession THEN IDLE ELSE S[session_id].state

\* the user answers yes while the session is in CONFIRMING_DETAILS
Affirms(S, session_id, u) ==
    /\ S[session_id] # NoSession
    /\ S[session_id].state = CONFIRMING_DETAILS
    /\ AnyWordIn(ConfirmWords, u)

\* the calendar backend: working, API calls failing, authentication failing
Backends == { <<TRUE, TRUE>>, <<TRUE, FALSE>>, <<FALSE, TRUE>> }

InitCalendar ==
    /\ cal_busy \in Calendars
    /\ \E backend \in Backends : cal_auth = backend[1] /\ cal_api = backend[2]
    \* SmartSchedulerAgent.initialize authenticates once
    /\ service = cal_auth
    /\ now = At(Today, 10, 0)
    /\ req = NoReq
    /\ found = <<>>

Init ==
    /\ InitCalendar
    /\ sessions = [id \in SessionIds |-> IF id = "s1" THEN NewSession ELSE NoSession]
    /\ NoConversation
    /\ phase = "start"

\* text_chat, once _process_user_input has answered: the state reported and
\* add_conversation_turn
ChatResponse(session_id, u, out) ==
    /\ sessions' = AddConversationTurn(out.S, session_id, u, out.reply)
    /\ cal_events' = out.events
    /\ reply' = [reply EXCEPT ![session_id] = out.reply]
    /\ reported' = [reported EXCEPT ![session_id] = StateOf(out.S, session_id)]
    /\ affirmed' = IF Affirms(sessions, session_id, u)
                   THEN affirmed \cup {session_id} ELSE affirmed
    /\ service' = IF out.search = NoSearch THEN service ELSE ServiceAfterBusyTimes
    /\ req' = IF out.search = NoSearch THEN NoReq ELSE out.search[1].req
    /\ found' = IF out.search = NoSearch THEN <<>> ELSE out.search[1].found
    /\ UNCHANGED <<cal_busy, cal_auth, cal_api, now>>

\* text_chat for a request that names session_id
Chat(session_id, u, llm, parsed_time) ==
    ChatResponse(session_id, u, ProcessUserInput(sessions, session_id, u, llm, parsed_time))

TextChat(session_id, u) ==
    /\ sessions[session_id] # NoSession =>
          Len(sessions[session_id].conversation_history) < MaxTurns
    /\ \E parsed_time \in ParsedTimes(sessions, session_id, u, LLM_FAILS) :
          Chat(session_id, u, LLM_FAILS, parsed_time)
    /\ phase' = "chat"
    /\ UNCHANGED <<pending, in_flight, last_call, served>>

Next == \E session_id \in SessionIds, u \in Texts : TextChat(session_id, u)

Spec == Init /\ [][Next]_vars

\* C3: every slot a search returns has end - start = duration_minutes > 0,
\* equal to the duration requested for the search, which is also the duration
\* the turn stores in the session's MeetingRequest.
C3_ExactDuration ==
    phase = "chat" /\ found # <<>> =>
        /\ \A i \in 1..Len(found) :
              /\ found[i].end_time - found[i].start_time = found[i].duration_minutes
              /\ found[i].duration_minutes > 0
              /\ found[i].duration_minutes = req.duration
        /\ sessions["s1"].meeting_request.duration_minutes = Some(req.duration)

\* C5: when authentication or the calendar API fails no options are
\* presented and no session is in PRESENTING_OPTIONS.
C5_BackendFailureSurfaced ==
    ~(cal_auth /\ cal_api) =>
        \A id \in SessionIds :
            /\ reply[id].options = <<>>
            /\ StateOf(sessions, id) # PRESENTING_OPTIONS

\* the texts that select the second option, by number or by ordinal word
SecondOptionTexts == { "2", "second" }

\* C8: in PRESENTING_OPTIONS with at least two options, the input "2" or
\* "second" stores selected_slot = options[1] and moves the session to
\* CONFIRMING_DETAILS (stated for a calendar that works, so that the turn
\* cannot end in a scheduling failure).
C8_SelectionConfirms ==
    [][ LET before == sessions["s1"]
            after == sessions'["s1"]
        IN ( /\ cal_auth /\ cal_api
             /\ before.state = PRESENTING_OPTIONS
             /\ Len(before.meeting_request.available_slots) >= 2
             /\ Len(after.conversation_history) = Len(before.conversation_history) + 1
             /\ after.conversation_history[Len(after.conversation_history)].user_input
                   \in SecondOptionTexts )
           => /\ after.state = CONFIRMING_DETAILS
              /\ after.meeting_request.selected_slot =
                    Some(before.meeting_request.available_slots[2]) ]_vars

\* C9: a calendar event is created only after a session in CONFIRMING_DETAILS
\* was given an affirmative answer.
C9_ConfirmationPrecedesCreation == cal_events # <<>> => affirmed # {}

----------------------------------------------------------------------------
(* The conversation flow manager, for a session in any of the nine states. *)

InitFlow ==
    /\ InitCalendar
    /\ \E state \in ConversationState :
          sessions = [id \in SessionIds |->
                        IF id = "s1" THEN [NewSession EXCEPT !.state = state]
                        ELSE NoSession]
    /\ NoConversation
    /\ phase = "start"

\* one call of handle_user_input
Flow(session_id, u) ==
    LET out == HandleUserInput(sessions, session_id, u)
    IN /\ sessions' = out.S
       /\ reply' = [reply EXCEPT ![session_id] = out.reply]
       /\ reported' = [reported EXCEPT ![session_id] = out.reported]
       /\ affirmed' = IF Affirms(sessions, session_id, u)
                      THEN affirmed \cup {session_id} ELSE affirmed
       /\ UNCHANGED <<calendar_vars, req, found>>

FlowTurn(session_id, u) ==
    /\ Flow(session_id, u)
    /\ pending' = [input |-> u, todo |-> {}]
    /\ phase' = "flow"
    /\ UNCHANGED <<in_flight, last_call, served>>

NextFlow == \E session_id \in SessionIds, u \in Texts : FlowTurn(session_id, u)

SpecFlow == InitFlow /\ [][NextFlow]_vars

\* the user keeps talking: a turn that can be taken is eventually taken
FairSpecFlow == SpecFlow /\ WF_vars(NextFlow)

\* C7: the next state a turn reports to its caller is the state stored in the
\* session after the turn, from every one of the nine states.
C7_ReportedStateIsStored ==
    \A id \in SessionIds :
        (phase = "flow" /\ sessions[id] # NoSession /\ reply[id] # NoReply) =>
            reported[id] = sessions[id].state

\* C10: once a session in CONFIRMING_DETAILS has been given an affirmative
\* answer it eventually reaches COMPLETED, whatever inputs follow.
C10_AffirmedReachesCompleted ==
    ("s1" \in affirmed) ~> (sessions["s1"].state = COMPLETED)

----------------------------------------------------------------------------
(* The three drivers side by side: each input is given to a session        *)
(* answered by the fallback, to one answered through the model, and to one *)
(* handled by the flow manager.  The sessions are named after their driver *)
(* and share the calendar.                                                 *)

MaxRounds == 2

Drivers == { "fallback", "gemini", "flow" }

InitDrivers ==
    /\ InitCalendar
    /\ sessions = [id \in Drivers |-> NewSession]
    /\ cal_events = <<>>
    /\ reply = [id \in Drivers |-> NoReply]
    /\ reported = [id \in Drivers |-> IDLE]
    /\ affirmed = {}
    /\ pending = NoInput
    /\ in_flight = {}
    /\ last_call = NothingCalled
    /\ served = 0
    /\ phase = "start"

\* the user says u, once every driver has answered the input before
Say(u) ==
    /\ pending.todo = {}
    /\ Len(sessions["fallback"].conversation_history) < MaxRounds
    /\ pending' = [input |-> u, todo |-> Drivers]
    /\ phase' = "say"
    /\ UNCHANGED <<calendar_vars, sessions, reply, reported, affirmed, in_flight,
                   last_call, served, req, found>>

Answered(driver) ==
    /\ pending' = [pending EXCEPT !.todo = @ \ {driver}]
    /\ UNCHANGED <<in_flight, last_call, served>>

\* text_chat when the model cannot be called
FallbackTurn ==
    /\ "fallback" \in pending.todo
    /\ \E parsed_time \in ParsedTimes(sessions, "fallback", pending.input, LLM_FAILS) :
          Chat("fallback", pending.input, LLM_FAILS, parsed_time)
    /\ Answered("fallback")
    /\ phase' = "fallback"

\* text_chat when the model answers
GeminiTurn ==
    /\ "gemini" \in pending.todo
    /\ \E llm \in LLMAnswers :
          \E parsed_time \in ParsedTimes(sessions, "gemini", pending.input, llm) :
             Chat("gemini", pending.input, llm, parsed_time)
    /\ Answered("gemini")
    /\ phase' = "gemini"

\* handle_user_input
FlowManagerTurn ==
    /\ "flow" \in pending.todo
    /\ Flow("flow", pending.input)
    /\ Answered("flow")
    /\ phase' = "flow"

NextDrivers ==
    \/ \E u \in Texts : Say(u)
    \/ FallbackTurn
    \/ GeminiTurn
    \/ FlowManagerTurn

SpecDrivers == InitDrivers /\ [][NextDrivers]_vars

\* C6: after every turn the three drivers leave their sessions in the same
\* ConversationState, with the same stored and the same presented options.
C6_DriverEquivalence ==
    pending.todo = {} =>
        \A a \in Drivers, b \in Drivers :
            /\ sessions[a].state = sessions[b].state
            /\ sessions[a].meeting_request.available_slots =
                  sessions[b].meeting_request.available_slots
            /\ reply[a].options = reply[b].options


----------------------------------------------------------------------------
(* The transitions of single turns.                                        *)

\* C11: a turn that takes a session from WAITING_FOR_TIME to
\* PRESENTING_OPTIONS stores a non-empty list of at most three options, and
\* these are the options its response shows.
C11_TimeTurnPresentsOptions ==
    [][ \A id \in DOMAIN sessions :
          ( /\ sessions[id] # NoSession
            /\ sessions[id].state = WAITING_FOR_TIME
            /\ sessions'[id].state = PRESENTING_OPTIONS )
          => /\ sessions'[id].meeting_request.available_slots # <<>>
             /\ Len(sessions'[id].meeting_request.available_slots) <= MaxOptions
             /\ reply'[id].options = sessions'[id].meeting_request.available_slots ]_vars


\* the input of the turn just taken by a session answered through text_chat
LastInput(session) ==
    session.conversation_history[Len(session.conversation_history)].user_input

\* a turn of text_chat has been taken by the session
TookTurn(id) ==
    /\ sessions[id] # NoSession
    /\ Len(sessions'[id].conversation_history) = Len(sessions[id].conversation_history) + 1

\* N for minutes and mins, 60 * N for hours, hour, hrs and hr
MinutesOf(d) ==
    IF d.unit \in {"minutes", "minute", "mins", "min"} THEN d.num ELSE 60 * d.num

\* C12: in WAITING_FOR_DURATION an input with a duration stores it in minutes
\* (N for minutes, 60 * N for hours, whatever the spelling of the unit) and
\* moves to WAITING_FOR_TIME; an input without one leaves the state and the
\* meeting request as they were.
C12_DurationTurn ==
    [][ \A id \in SessionIds :
          (TookTurn(id) /\ sessions[id].state = WAITING_FOR_DURATION)
          => IF Lex(LastInput(sessions'[id])).duration # None
             THEN /\ sessions'[id].state = WAITING_FOR_TIME
                  /\ sessions'[id].meeting_request.duration_minutes =
                        Some(MinutesOf(Lex(LastInput(sessions'[id])).duration[1]))
             ELSE /\ sessions'[id].state = WAITING_FOR_DURATION
                  /\ sessions'[id].meeting_request = sessions[id].meeting_request ]_vars


\* the input identifies none of the n options: it holds no number, ordinal or
\* day name, or its number is outside 1..n
IdentifiesNoOption(u, n) ==
    /\ FirstDayIn(u) = None
    /\ \/ Lex(u).selection = None
       \/ /\ Lex(u).selection[1].kind = "number"
          /\ Lex(u).selection[1].num \notin 1..n

\* C13: in PRESENTING_OPTIONS an input that identifies none of the presented
\* options leaves the state, available_slots and selected_slot as they were
\* and creates no calendar event.
C13_InvalidSelection ==
    [][ \A id \in SessionIds :
          ( /\ TookTurn(id)
            /\ sessions[id].state = PRESENTING_OPTIONS
            /\ IdentifiesNoOption(LastInput(sessions'[id]),
                                  Len(sessions[id].meeting_request.available_slots)) )
          => /\ sessions'[id].state = PRESENTING_OPTIONS
             /\ sessions'[id].meeting_request.available_slots =
                   sessions[id].meeting_request.available_slots
             /\ sessions'[id].meeting_request.selected_slot =
                   sessions[id].meeting_request.selected_slot
             /\ cal_events' = cal_events ]_vars


\* the first of the options whose formatted text names the day, if any
RECURSIVE FirstNaming(_, _, _)
FirstNaming(day, options, i) ==
    IF i > Len(options) THEN None
    ELSE IF options[i].formatted_time.day = day THEN Some(options[i])
    ELSE FirstNaming(day, options, i + 1)

\* C14: in PRESENTING_OPTIONS an input that names a weekday selects the first
\* presented option whose text names that weekday; when no presented option
\* names it, nothing is selected and no event is created (stated for a
\* calendar that works).
C14_WeekdaySelection ==
    [][ \A id \in SessionIds :
          ( /\ cal_auth /\ cal_api
            /\ TookTurn(id)
            /\ sessions[id].state = PRESENTING_OPTIONS
            /\ FirstDayIn(LastInput(sessions'[id])) # None )
          => IF FirstNaming(FirstDayIn(LastInput(sessions'[id]))[1],
                            sessions[id].meeting_request.available_slots, 1) # None
             THEN sessions'[id].meeting_request.selected_slot =
                     FirstNaming(FirstDayIn(LastInput(sessions'[id]))[1],
                                 sessions[id].meeting_request.available_slots, 1)
             ELSE /\ sessions'[id].meeting_request.selected_slot =
                        sessions[id].meeting_request.selected_slot
                  /\ cal_events' = cal_events ]_vars

\* C14, for the input that names a day together with an agreement word
C14_AgreedWeekdaySelection ==
    [][ \A id \in SessionIds :
          ( /\ cal_auth /\ cal_api
            /\ TookTurn(id)
            /\ sessions[id].state = PRESENTING_OPTIONS
            /\ LastInput(sessions'[id]) = "monday is ok"
            /\ FirstNaming("monday", sessions[id].meeting_request.available_slots, 1) = None )
          => /\ sessions'[id].meeting_request.selected_slot =
                   sessions[id].meeting_request.selected_slot
             /\ cal_events' = cal_events ]_vars


\* the option a number or an ordinal word selects: 1 for the first
SelectedNumber(u) ==
    IF Lex(u).selection = None THEN 0
    ELSE IF Lex(u).selection[1].kind = "number" THEN Lex(u).selection[1].num
    ELSE CASE Lex(u).selection[1].word \in {"first", "one"} -> 1
           [] Lex(u).selection[1].word \in {"second", "two"} -> 2
           [] Lex(u).selection[1].word \in {"third", "three"} -> 3

\* the session has had exactly the four turns of a negotiation: a scheduling
\* intent, a duration, a time for which options were presented, and the
\* number or ordinal of one of these options; the calendar works
Negotiated(session) ==
    /\ cal_auth /\ cal_api
    /\ session # NoSession
    /\ Len(session.conversation_history) = 4
    /\ AnyWordIn(SchedulingWords, session.conversation_history[1].user_input)
    /\ Lex(session.conversation_history[2].user_input).duration # None
    /\ session.conversation_history[3].agent_response.options # <<>>
    /\ FirstDayIn(session.conversation_history[4].user_input) = None
    /\ SelectedNumber(session.conversation_history[4].user_input)
          \in 1..Len(session.conversation_history[3].agent_response.options)

\* the option chosen in the fourth turn
Chosen(session) ==
    session.conversation_history[3].agent_response.options[
        SelectedNumber(session.conversation_history[4].user_input)]

\* C15: answered by the fallback alone, the four turns of a negotiation take
\* the session from IDLE to COMPLETED, every turn returns a prompt, and one
\* event is created: it starts where the selected slot starts and lasts the
\* duration the session holds.
C15_FallbackCompletes ==
    Negotiated(sessions["s1"]) =>
        /\ sessions["s1"].state = COMPLETED
        /\ sessions["s1"].meeting_request.selected_slot = Some(Chosen(sessions["s1"]))
        /\ Len(cal_events) = 1
        /\ cal_events[1].start_time = Chosen(sessions["s1"]).start_time
        /\ cal_events[1].end_time = Chosen(sessions["s1"]).start_time
              + sessions["s1"].meeting_request.duration_minutes[1]
        /\ \A i \in 1..4 : sessions["s1"].conversation_history[i].agent_response.text # ""

\* the event created ends where the selected slot ends: this fails where the
\* slots found are longer than the duration the session holds (see C3)
EventEndsWithSelectedSlot ==
    Negotiated(sessions["s1"]) =>
        /\ Len(cal_events) = 1
        /\ cal_events[1].start_time = Chosen(sessions["s1"]).start_time
        /\ cal_events[1].end_time = Chosen(sessions["s1"]).end_time

\* C15: a negotiation has been completed
C15_Negotiated == Negotiated(sessions["s1"]) /\ sessions["s1"].state = COMPLETED

\* the replies that tell the user the turn failed: no slots found, the
\* calendar not reachable, the event not created
FailureReplies ==
    { TROUBLE, NONE_IN_CALENDAR, NONE_ON_DAY, NONE_FOR, NONE_FOR_TIME, NONE_AT_ALL,
      SCHEDULE_TROUBLE }

\* C16: a turn that ends with a failure outcome (no slots found, calendar
\* error, event creation failed) leaves the session's state and its
\* MeetingRequest (preferred_time, duration_minutes, available_slots,
\* selected_slot) exactly as they were before the turn
C16_TurnAtomicity ==
    [][ \A id \in SessionIds :
          (TookTurn(id) /\ reply'[id].text \in FailureReplies) =>
             /\ sessions'[id].state = sessions[id].state
             /\ sessions'[id].meeting_request = sessions[id].meeting_request ]_vars

----------------------------------------------------------------------------
(* The StateManager called directly, as test_basic_functionality calls it. *)

\* the turns the sessions are given, all together
MaxStored == 2

\* the values the calls are given
StoreInputs == { "Hello", "schedule a meeting" }

StoreResponses == { Reply("Hi there!", None, <<>>) }

StoreUpdates ==
    { [duration_minutes |-> Some(30)],
      [duration_minutes |-> None, preferred_time |-> Some("tomorrow")] }

\* the turns recorded in all the sessions together
RECURSIVE Recorded(_, _)
Recorded(S, ids) ==
    IF ids = {} THEN 0
    ELSE LET id == CHOOSE i \in ids : TRUE
         IN (IF S[id] = NoSession THEN 0 ELSE Len(S[id].conversation_history))
            + Recorded(S, ids \ {id})

InitStore ==
    /\ cal_busy = SomeMeetings
    /\ cal_auth = TRUE
    /\ cal_api = TRUE
    /\ service = TRUE
    /\ now = At(Today, 10, 0)
    /\ req = NoReq
    /\ found = <<>>
    /\ sessions = [id \in SessionIds |-> NoSession]
    /\ NoConversation
    /\ phase = "start"

\* a call changes nothing but the sessions
StoreCall(S, call) ==
    /\ sessions' = S
    /\ last_call' = call
    /\ phase' = call.call
    /\ UNCHANGED <<calendar_vars, reply, reported, affirmed, pending, in_flight, served,
                   req, found>>

CreateSessionCall(session_id) ==
    StoreCall(CreateSession(sessions, session_id),
              Called("create_session", session_id, None, Some(NewSession)))

GetSessionCall(session_id) ==
    StoreCall(sessions,
              Called("get_session", session_id, None, GetSession(sessions, session_id)))

SetStateCall(session_id, state) ==
    StoreCall(SetState(sessions, session_id, state),
              Called("set_state", session_id, state, None))

UpdateMeetingRequestCall(session_id, kwargs) ==
    StoreCall(UpdateMeetingRequest(sessions, session_id, kwargs),
              Called("update_meeting_request", session_id, kwargs, None))

AddConversationTurnCall(session_id, user_input, agent_response) ==
    StoreCall(AddConversationTurn(sessions, session_id, user_input, agent_response),
              Called("add_conversation_turn", session_id,
                     [user_input |-> user_input, agent_response |-> agent_response],
                     None))

GetConversationContextCall(session_id) ==
    StoreCall(sessions,
              Called("get_conversation_context", session_id, None,
                     GetConversationContext(sessions, session_id, DefaultLastTurns)))

ClearSessionCall(session_id) ==
    StoreCall(ClearSession(sessions, session_id),
              Called("clear_session", session_id, None, None))

NextStore ==
    \E session_id \in SessionIds :
        \/ CreateSessionCall(session_id)
        \/ GetSessionCall(session_id)
        \/ \E state \in ConversationState : SetStateCall(session_id, state)
        \/ \E kwargs \in StoreUpdates : UpdateMeetingRequestCall(session_id, kwargs)
        \/ /\ Recorded(sessions, SessionIds) < MaxStored
           /\ \E u \in StoreInputs, r \in StoreResponses :
                 AddConversationTurnCall(session_id, u, r)
        \/ GetConversationContextCall(session_id)
        \/ ClearSessionCall(session_id)

SpecStore == InitStore /\ [][NextStore]_vars

\* the longest history the sessions are given, all together
MaxHistory == 6

\* the state test_basic_functionality sets
TestedStates == { WAITING_FOR_DURATION }

TestedUpdates == { [duration_minutes |-> Some(30)] }

\* the same calls, made to build long histories
NextHistory ==
    \E session_id \in SessionIds :
        \/ CreateSessionCall(session_id)
        \/ GetSessionCall(session_id)
        \/ \E state \in TestedStates : SetStateCall(session_id, state)
        \/ \E kwargs \in TestedUpdates : UpdateMeetingRequestCall(session_id, kwargs)
        \/ /\ Recorded(sessions, SessionIds) < MaxHistory
           /\ \E u \in StoreInputs, r \in StoreResponses :
                 AddConversationTurnCall(session_id, u, r)
        \/ GetConversationContextCall(session_id)
        \/ ClearSessionCall(session_id)

SpecHistory == InitStore /\ [][NextHistory]_vars

\* C19: for an existing session, the get_session(id) that follows
\* set_state(id, s) returns a session whose state is s, for each of the nine
\* states, and the get_session(id) that follows
\* update_meeting_request(id, f=v) returns a session whose field f is v
C19_ReadYourOwnWrite ==
    [][ \A id \in SessionIds :
          (/\ last_call.session_id = id
           /\ sessions[id] # NoSession
           /\ last_call'.call = "get_session"
           /\ last_call'.session_id = id) =>
             /\ last_call'.value # None
             /\ last_call.call = "set_state" =>
                   last_call'.value[1].state = last_call.args
             /\ last_call.call = "update_meeting_request" =>
                   \A f \in DOMAIN last_call.args :
                       last_call'.value[1].meeting_request[f] = last_call.args[f] ]_vars

\* C19: get_session has returned a session whose state set_state wrote and
\* whose duration_minutes and preferred_time update_meeting_request wrote
C19_WritesRead ==
    /\ last_call.call = "get_session"
    /\ last_call.value # None
    /\ last_call.value[1].state = CREATING_EVENT
    /\ last_call.value[1].meeting_request.duration_minutes = Some(30)
    /\ last_call.value[1].meeting_request.preferred_time = Some("tomorrow")
    /\ last_call.value[1].conversation_history # <<>>

\* the history a session holds, empty for an id that holds none
HistoryOf(S, id) == IF S[id] = NoSession THEN <<>> ELSE S[id].conversation_history

\* C20: add_conversation_turn(id, u, a) on an existing session appends exactly
\* the entry (u, a) at the end of the history and leaves the earlier entries
\* as they are; get_conversation_context returns the last min(k, 5) of the k
\* entries in their order; and every call other than clear_session and
\* create_session keeps the entries a session has, in their order
C20_HistoryAppendOnly ==
    [][ \A id \in SessionIds :
          /\ (/\ last_call'.call = "add_conversation_turn"
              /\ last_call'.session_id = id
              /\ sessions[id] # NoSession) =>
                HistoryOf(sessions', id) = Append(HistoryOf(sessions, id), last_call'.args)
          /\ (last_call'.call = "get_conversation_context" /\ last_call'.session_id = id) =>
                LET k == Len(HistoryOf(sessions, id))
                    n == Len(last_call'.value)
                IN /\ n = Min(k, 5)
                   /\ \A i \in 1..n : last_call'.value[i] = HistoryOf(sessions, id)[k - n + i]
          /\ ~(last_call'.call \in {"clear_session", "create_session"}
               /\ last_call'.session_id = id) =>
                /\ Len(HistoryOf(sessions', id)) >= Len(HistoryOf(sessions, id))
                /\ \A i \in 1..Len(HistoryOf(sessions, id)) :
                      HistoryOf(sessions', id)[i] = HistoryOf(sessions, id)[i] ]_vars

\* C20: a session holds more turns than get_conversation_context returns, and
\* the turns it holds are not all the same
C20_LongHistoryRead ==
    \E id \in SessionIds :
        /\ last_call.call = "get_conversation_context"
        /\ last_call.session_id = id
        /\ Len(HistoryOf(sessions, id)) = MaxHistory
        /\ Len(last_call.value) = DefaultLastTurns
        /\ HistoryOf(sessions, id)[1].user_input # HistoryOf(sessions, id)[2].user_input

----------------------------------------------------------------------------
(* api/main.py: the endpoints that serve turns, answered by                *)
(* _fallback_response, next to the direct calls of the StateManager.       *)

\* the turns the endpoints answer
MaxServed == 4

\* what the users say
ServerTexts == { "schedule a meeting", "30 minutes", "tomorrow" }

\* a websocket message answered and not yet recorded
InFlight(session_id, user_input, agent_response) ==
    [session_id |-> session_id, user_input |-> user_input,
     agent_response |-> agent_response]

InitServer == InitStore


\* text_chat for a request that names session_id: nothing in it gives way to
\* another request, so the whole of it is one step
ServerChat(session_id, u) ==
    /\ served < MaxServed
    /\ served' = served + 1
    /\ \E parsed_time \in ParsedTimes(sessions, session_id, u, LLM_FAILS) :
          Chat(session_id, u, LLM_FAILS, parsed_time)
    /\ last_call' = Called("text_chat", session_id, u, None)
    /\ phase' = "chat"
    /\ UNCHANGED <<pending, in_flight>>

\* text_chat for a request without session_id: create_session under a new
\* id, then the turn
NewChat(session_id, u) ==
    /\ sessions[session_id] = NoSession
    /\ \A m \in in_flight : m.session_id # session_id
    /\ served < MaxServed
    /\ served' = served + 1
    /\ ChatResponse(session_id, u,
                    ProcessUserInput(CreateSession(sessions, session_id),
                                     session_id, u, LLM_FAILS, None))
    /\ last_call' = Called("text_chat", session_id, u, None)
    /\ phase' = "new chat"
    /\ UNCHANGED <<pending, in_flight>>

\* websocket_endpoint, from a message received to the send of the response:
\* _process_user_input
WebsocketAnswer(session_id, u, out) ==
    /\ sessions' = out.S
    /\ cal_events' = out.events
    /\ reply' = [reply EXCEPT ![session_id] = out.reply]
    /\ affirmed' = IF Affirms(sessions, session_id, u)
                   THEN affirmed \cup {session_id} ELSE affirmed
    /\ service' = IF out.search = NoSearch THEN service ELSE ServiceAfterBusyTimes
    /\ req' = IF out.search = NoSearch THEN NoReq ELSE out.search[1].req
    /\ found' = IF out.search = NoSearch THEN <<>> ELSE out.search[1].found
    /\ in_flight' = in_flight \cup { InFlight(session_id, u, out.reply) }
    /\ UNCHANGED <<cal_busy, cal_auth, cal_api, now, reported, pending>>

\* a message on the websocket of a session: the connection was accepted for a
\* session that existed, and handles one message at a time
WebsocketMessage(session_id, u) ==
    /\ sessions[session_id] # NoSession
    /\ \A m \in in_flight : m.session_id # session_id
    /\ served < MaxServed
    /\ served' = served + 1
    /\ \E parsed_time \in ParsedTimes(sessions, session_id, u, LLM_FAILS) :
          WebsocketAnswer(session_id, u,
                          ProcessUserInput(sessions, session_id, u, LLM_FAILS, parsed_time))
    /\ last_call' = Called("websocket message", session_id, u, None)
    /\ phase' = "websocket message"

\* websocket_endpoint, once send_json has given way and come back:
\* add_conversation_turn
WebsocketRecord(m) ==
    /\ sessions' = AddConversationTurn(sessions, m.session_id, m.user_input,
                                       m.agent_response)
    /\ in_flight' = in_flight \ {m}
    /\ last_call' = Called("websocket record", m.session_id, m.user_input, None)
    /\ phase' = "websocket record"
    /\ UNCHANGED <<calendar_vars, reply, reported, affirmed, pending, served, req, found>>

NextServer ==
    \/ \E session_id \in SessionIds, u \in ServerTexts :
          \/ ServerChat(session_id, u)
          \/ NewChat(session_id, u)
          \/ WebsocketMessage(session_id, u)
    \/ \E m \in in_flight : WebsocketRecord(m)
    \/ \E session_id \in SessionIds :
          \/ ClearSessionCall(session_id)
          \/ CreateSessionCall(session_id)

SpecServer == InitServer /\ [][NextServer]_vars

\* C17: while a turn of a session is in flight (its websocket message
\* answered, its history entry not yet written), no /api/chat turn reads or
\* writes that session: the two turns run one after the other
C17_TurnsSerialized ==
    [][ \A m \in in_flight :
          (last_call'.call = "text_chat" /\ last_call'.session_id = m.session_id) =>
             sessions'[m.session_id] = sessions[m.session_id] ]_vars

\* a session that clear_session deleted comes back only through
\* create_session, never through a turn that was in flight
DeletedStaysDeleted ==
    [][ \A id \in SessionIds :
          (sessions[id] = NoSession /\ sessions'[id] # NoSession) =>
             \/ last_call'.call = "create_session"
             \/ phase' = "new chat" ]_vars

\* C18: an operation on one session (create_session, a turn, the
\* add_conversation_turn of a websocket turn, clear_session, with the
\* set_state and update_meeting_request calls the turns make) leaves the
\* state, MeetingRequest and history of every other session as they were,
\* whatever is in flight
C18_CrossSessionIndependence ==
    [][ \A B \in SessionIds :
          last_call'.session_id # B => sessions'[B] = sessions[B] ]_vars

\* C18: both sessions hold turns, in different states, with a turn of one of
\* them in flight while the last operation was on the other
C18_TwoSessionsServed ==
    \E A \in SessionIds, B \in SessionIds :
        /\ A # B
        /\ sessions[A] # NoSession /\ sessions[B] # NoSession
        /\ sessions[A].conversation_history # <<>>
        /\ sessions[B].conversation_history # <<>>
        /\ sessions[A].state # sessions[B].state
        /\ sessions[A].meeting_request # sessions[B].meeting_request
        /\ \E m \in in_flight : m.session_id = A
        /\ last_call.session_id = B

----------------------------------------------------------------------------
(* What a turn and a call leave alone. *)

\* update_meeting_request(id, fields) changes exactly the fields passed, and
\* neither the state nor the history
UpdateChangesFieldsPassed ==
    [][ \A id \in SessionIds :
          (/\ last_call'.call = "update_meeting_request"
           /\ last_call'.session_id = id
           /\ last_call' # last_call
           /\ sessions[id] # NoSession) =>
             /\ sessions'[id].state = sessions[id].state
             /\ sessions'[id].conversation_history = sessions[id].conversation_history
             /\ \A f \in DOMAIN sessions[id].meeting_request :
                   sessions'[id].meeting_request[f] =
                      IF f \in DOMAIN last_call'.args THEN last_call'.args[f]
                      ELSE sessions[id].meeting_request[f] ]_vars

\* C21: over a whole turn, duration_minutes changes only if the user's input
\* of that turn gives a duration, and preferred_time only to what the user
\* said in that turn: no stored field is replaced by a default or by a value
\* the user did not give
C21_SetIfProvided ==
    [][ \A id \in DOMAIN sessions :
          TookTurn(id) =>
             /\ sessions'[id].meeting_request.duration_minutes
                   # sessions[id].meeting_request.duration_minutes =>
                      Lex(LastInput(sessions'[id])).duration # None
             /\ sessions'[id].meeting_request.preferred_time
                   # sessions[id].meeting_request.preferred_time =>
                      sessions'[id].meeting_request.preferred_time
                         = Some(LastInput(sessions'[id])) ]_vars

\* a turn addressed to a session_id the store does not hold returns the
\* apology and reports IDLE
LostSessionApology ==
    [][ \A id \in SessionIds :
          (/\ phase' = "chat"
           /\ served' = served + 1
           /\ last_call'.session_id = id
           /\ sessions[id] = NoSession) =>
             /\ reply'[id].text = LOST_TRACK
             /\ reported'[id] = IDLE ]_vars

\* C22: after a turn addressed to a session_id the store does not hold has
\* returned the apology, a following turn on that session_id with a
\* scheduling intent is processed from IDLE and reaches WAITING_FOR_DURATION
C22_SessionLossRecoverable ==
    [][ \A id \in SessionIds :
          (/\ sessions[id] = NoSession
           /\ reply[id].text = LOST_TRACK
           /\ phase' = "chat"
           /\ served' = served + 1
           /\ last_call'.session_id = id
           /\ AnyWordIn(SchedulingWords, last_call'.args)) =>
             /\ sessions'[id] # NoSession
             /\ sessions'[id].state = WAITING_FOR_DURATION ]_vars

----------------------------------------------------------------------------
(* What a turn may raise.  The three entry points of a turn are called on  *)
(* a session in any of the nine states.  int() of a text of more than 4300 *)
(* digits raises ValueError (CPython 3.11, and the later releases of 3.7   *)
(* to 3.10); the duration and the selection are converted with int() at    *)
(* conversation_manager.py 260 and 369 and state_manager.py 455, outside   *)
(* every try block of the turn.                                            *)

\* int() of the figure in the text raises: the figure is one too long
IntRaises(u) == u = LongDuration

\* the response that is not there: the call raised
Raised(error) == Reply("", Some(error), <<>>)

RaiseTexts == { "schedule a meeting", "30 minutes", "2", "tomorrow", LongDuration }

\* _fallback_response, lines 260 and 369
FallbackResponseRaises(S, session_id, u) ==
    /\ S[session_id] # NoSession
    /\ \/ /\ S[session_id].state = WAITING_FOR_DURATION
          /\ Lex(u).duration # None
          /\ IntRaises(u)
       \/ /\ S[session_id].state = PRESENTING_OPTIONS
          /\ ~(DaySelection(u) # None /\ AnyWordIn(AgreementWords, u))
          /\ Lex(u).selection # None
          /\ Lex(u).selection[1].kind = "number"
          /\ IntRaises(u)

\* _process_user_input: every exception of the model's path is answered by
\* _fallback_response, called in the except block
ProcessUserInputRaises(S, session_id, u, llm) ==
    llm = LLM_FAILS /\ FallbackResponseRaises(S, session_id, u)

\* handle_user_input, through _handle_duration_state and _extract_duration
HandleUserInputRaises(S, session_id, u) ==
    /\ S[session_id] # NoSession
    /\ S[session_id].state = WAITING_FOR_DURATION
    /\ Lex(u).duration # None
    /\ IntRaises(u)

\* the calls followed from each initial state
MaxCalls == 3

InitRaise == InitFlow

\* the caller is left without a response
RaisedTo(call, session_id, u) ==
    /\ reply' = [reply EXCEPT ![session_id] = Raised("ValueError")]
    /\ last_call' = Called(call, session_id, u, None)
    /\ UNCHANGED <<calendar_vars, sessions, reported, affirmed, pending, in_flight,
                   req, found>>

\* the caller has the response
Responded(call, session_id, u, out) ==
    /\ sessions' = out.S
    /\ cal_events' = out.events
    /\ reply' = [reply EXCEPT ![session_id] = out.reply]
    /\ service' = IF out.search = NoSearch THEN service ELSE ServiceAfterBusyTimes
    /\ req' = IF out.search = NoSearch THEN NoReq ELSE out.search[1].req
    /\ found' = IF out.search = NoSearch THEN <<>> ELSE out.search[1].found
    /\ last_call' = Called(call, session_id, u, None)
    /\ UNCHANGED <<cal_busy, cal_auth, cal_api, now, reported, affirmed, pending,
                   in_flight>>

ProcessUserInputCall(session_id, u) ==
    /\ served < MaxCalls
    /\ served' = served + 1
    /\ \E llm \in LLMAnswers \cup {LLM_FAILS} :
          IF ProcessUserInputRaises(sessions, session_id, u, llm)
          THEN RaisedTo("_process_user_input", session_id, u)
          ELSE \E parsed_time \in ParsedTimes(sessions, session_id, u, llm) :
                  Responded("_process_user_input", session_id, u,
                            ProcessUserInput(sessions, session_id, u, llm, parsed_time))
    /\ phase' = "_process_user_input"

FallbackResponseCall(session_id, u) ==
    /\ served < MaxCalls
    /\ served' = served + 1
    /\ IF FallbackResponseRaises(sessions, session_id, u)
       THEN RaisedTo("_fallback_response", session_id, u)
       ELSE \E parsed_time \in ParsedTimes(sessions, session_id, u, LLM_FAILS) :
               Responded("_fallback_response", session_id, u,
                         FallbackResponse(sessions, session_id, u, parsed_time))
    /\ phase' = "_fallback_response"

HandleUserInputCall(session_id, u) ==
    /\ served < MaxCalls
    /\ served' = served + 1
    /\ IF HandleUserInputRaises(sessions, session_id, u)
       THEN RaisedTo("handle_user_input", session_id, u)
       ELSE /\ Flow(session_id, u)
            /\ last_call' = Called("handle_user_input", session_id, u, None)
            /\ UNCHANGED <<pending, in_flight>>
    /\ phase' = "handle_user_input"

NextRaise ==
    \/ \E session_id \in SessionIds, u \in RaiseTexts : ProcessUserInputCall(session_id, u)
    \/ \E session_id \in SessionIds, u \in RaiseTexts : FallbackResponseCall(session_id, u)
    \/ \E session_id \in SessionIds, u \in RaiseTexts : HandleUserInputCall(session_id, u)

SpecRaise == InitRaise /\ [][NextRaise]_vars

\* C23: whatever the state, the input and the outcome of the model and of the
\* calendar, a turn through _process_user_input, _fallback_response or
\* handle_user_input gives its caller a non-empty response and raises nothing.
C23_NoErrorPropagates ==
    \A id \in SessionIds :
        (last_call.call \in {"_process_user_input", "_fallback_response",
                             "handle_user_input"}
         /\ last_call.session_id = id) => reply[id].text # ""

\* a call that raises was given the long figure; every other call has a response
RaisesOnLongFigureOnly ==
    \A id \in SessionIds :
        (last_call.call # "" /\ last_call.session_id = id /\ reply[id].text = "") =>
            last_call.args = LongDuration

----------------------------------------------------------------------------
(* time_parser.py: apply_constraints_to_slots, called on its own.  The     *)
(* slot list and the constraint map are drawn in the initial state.        *)

\* key in constraints
HasKey(constraints, key) == key \in DOMAIN constraints

\* x in a list
InList(x, list) == \E i \in 1..Len(list) : list[i] = x

\* one pass of the loop with the end of time_range taken as allowed
SlotKeptInclusive(slot, constraints) ==
    /\ HasKey(constraints, "time_range") =>
          /\ constraints["time_range"][1] <= HourOf(slot.start_time)
          /\ HourOf(slot.start_time) <= constraints["time_range"][2]
    /\ HasKey(constraints, "not_before") =>
          ~(HourOf(slot.start_time) < constraints["not_before"])
    /\ HasKey(constraints, "not_after") =>
          ~(HourOf(slot.start_time) >= constraints["not_after"])
    /\ (HasKey(constraints, "weekdays_only") /\ constraints["weekdays_only"]) =>
          ~(Weekday(slot.start_time) >= 5)
    /\ (HasKey(constraints, "weekends_only") /\ constraints["weekends_only"]) =>
          ~(Weekday(slot.start_time) < 5)
    /\ HasKey(constraints, "excluded_days") =>
          ~InList(DayNames[Weekday(slot.start_time) + 1], constraints["excluded_days"])

\* lines 429-464, one pass of the loop: no continue is reached
SlotKept(slot, constraints) ==
    /\ HasKey(constraints, "time_range") =>
          /\ constraints["time_range"][1] <= HourOf(slot.start_time)
          /\ HourOf(slot.start_time) < constraints["time_range"][2]
    /\ HasKey(constraints, "not_before") =>
          ~(HourOf(slot.start_time) < constraints["not_before"])
    /\ HasKey(constraints, "not_after") =>
          ~(HourOf(slot.start_time) >= constraints["not_after"])
    /\ (HasKey(constraints, "weekdays_only") /\ constraints["weekdays_only"]) =>
          ~(Weekday(slot.start_time) >= 5)
    /\ (HasKey(constraints, "weekends_only") /\ constraints["weekends_only"]) =>
          ~(Weekday(slot.start_time) < 5)
    /\ HasKey(constraints, "excluded_days") =>
          ~InList(DayNames[Weekday(slot.start_time) + 1], constraints["excluded_days"])

\* the loop that puts every slot it keeps in front of filtered_slots
RECURSIVE ApplyConstraintsPrepending(_, _)
ApplyConstraintsPrepending(slots, constraints) ==
    IF slots = <<>> THEN <<>>
    ELSE ApplyConstraintsPrepending(Tail(slots), constraints)
         \o (IF SlotKept(Head(slots), constraints) THEN <<Head(slots)>> ELSE <<>>)

\* apply_constraints_to_slots: filtered_slots
RECURSIVE ApplyConstraintsToSlots(_, _)
ApplyConstraintsToSlots(slots, constraints) ==
    IF slots = <<>> THEN <<>>
    ELSE (IF SlotKept(Head(slots), constraints) THEN <<Head(slots)>> ELSE <<>>)
         \o ApplyConstraintsToSlots(Tail(slots), constraints)

\* the slots given to the filter: at most this many
MaxFiltered == 3

\* Tuesday 8:00 and 13:00, Saturday 10:00, Sunday 18:00, Monday 23:00
FilterStarts ==
    { At(SearchDay, 8, 0), At(SearchDay, 13, 0), At(SearchDay + 4, 10, 0),
      At(SearchDay + 5, 18, 0), At(SearchDay + 6, 23, 0) }

FilterSlots == { TimeSlot(t, t + 30) : t \in FilterStarts }

\* a map without the key, or with one of the values
Optional(key, values) == { <<>> } \cup { [k \in {key} |-> v] : v \in values }

Merge(f, g) == [k \in DOMAIN f \cup DOMAIN g |-> IF k \in DOMAIN f THEN f[k] ELSE g[k]]

\* the constraint maps: the values the parser writes (time_parser.py 268-298,
\* 511-532), a flag that is false, and a key the filter does not know
ConstraintMaps ==
    { Merge(a, Merge(b, Merge(c, Merge(d, Merge(e, Merge(f, g)))))) :
        a \in Optional("time_range", { <<12, 18>>, <<22, 6>> }),
        b \in Optional("not_before", { 9 }),
        c \in Optional("not_after", { 18 }),
        d \in Optional("weekdays_only", BOOLEAN),
        e \in Optional("weekends_only", BOOLEAN),
        f \in Optional("excluded_days", { <<"monday">>, <<"saturday", "tuesday">> }),
        g \in Optional("deadline", { At(SearchDay + 3, 18, 0) }) }

InitFilter ==
    /\ cal_busy = SomeMeetings
    /\ cal_auth = TRUE
    /\ cal_api = TRUE
    /\ service = TRUE
    /\ now = At(Today, 10, 0)
    /\ req = NoReq
    /\ found = <<>>
    /\ sessions = [id \in SessionIds |-> NoSession]
    /\ cal_events = <<>>
    /\ reply = [id \in SessionIds |-> NoReply]
    /\ reported = [id \in SessionIds |-> IDLE]
    /\ affirmed = {}
    /\ \E slots \in SeqsUpTo(FilterSlots, MaxFiltered), constraints \in ConstraintMaps :
          pending = [slots |-> slots, constraints |-> constraints]
    /\ in_flight = {}
    /\ last_call = NothingCalled
    /\ served = 0
    /\ phase = "start"

\* one call of apply_constraints_to_slots: what it returns, and its arguments
\* as the call leaves them (no statement of the function assigns to either)
ApplyConstraintsCall ==
    /\ phase = "start"
    /\ found' = ApplyConstraintsToSlots(pending.slots, pending.constraints)
    /\ last_call' = Called("apply_constraints_to_slots", "",
                           [slots |-> pending.slots, constraints |-> pending.constraints],
                           found')
    /\ phase' = "filtered"
    /\ UNCHANGED <<calendar_vars, sessions, reply, reported, affirmed, pending,
                   in_flight, served, req>>

NextFilter == ApplyConstraintsCall

SpecFilter == InitFilter /\ [][NextFilter]_vars

\* r is s with some of its elements left out
RECURSIVE IsSubSequence(_, _)
IsSubSequence(r, s) ==
    IF r = <<>> THEN TRUE
    ELSE IF s = <<>> THEN FALSE
    ELSE IF Head(r) = Head(s) THEN IsSubSequence(Tail(r), Tail(s))
    ELSE IsSubSequence(r, Tail(s))

\* C24: what apply_constraints_to_slots returns is a sub-sequence of the slot
\* list it was given (input slots only, none added or repeated, in their
\* order), and the slot list and the constraint map are as they were.
C24_FilterMonotonic ==
    phase = "filtered" =>
        /\ IsSubSequence(found, pending.slots)
        /\ Len(found) <= Len(pending.slots)
        /\ last_call.args = [slots |-> pending.slots, constraints |-> pending.constraints]

\* slots are dropped and slots are kept, out of a list that repeats a slot
C24_SomeFilteredOut ==
    /\ phase = "filtered"
    /\ Len(pending.slots) = 3
    /\ pending.slots[1] = pending.slots[3]
    /\ pending.slots[1] # pending.slots[2]
    /\ found = <<pending.slots[1], pending.slots[3]>>

\* the keys the filter knows
RecognisedKeys ==
    { "time_range", "not_before", "not_after", "weekdays_only", "weekends_only",
      "excluded_days" }

\* what each key asks of a slot, as the specification words it
Satisfies(slot, constraints, key) ==
    CASE key = "time_range" ->
           /\ constraints[key][1] <= HourOf(slot.start_time)
           /\ HourOf(slot.start_time) < constraints[key][2]
      [] key = "not_before" -> HourOf(slot.start_time) >= constraints[key]
      [] key = "not_after" -> HourOf(slot.start_time) < constraints[key]
      [] key = "weekdays_only" -> constraints[key] => Weekday(slot.start_time) < 5
      [] key = "weekends_only" -> constraints[key] => Weekday(slot.start_time) >= 5
      [] key = "excluded_days" ->
           \A i \in 1..Len(constraints[key]) :
              constraints[key][i] # DayNames[Weekday(slot.start_time) + 1]

\* C25: a slot is kept iff it satisfies every recognised key of the map
\* (time_range a <= hour < b, not_before hour >= h, not_after hour < h,
\* weekdays_only weekday < 5, weekends_only weekday >= 5, excluded_days day
\* name not in the list); the result keeps the order and the repetitions of the
\* input, and a key outside these six changes nothing.
C25_FilterSemantics ==
    phase = "filtered" =>
        /\ \A i \in 1..Len(pending.slots) :
              InList(pending.slots[i], found) <=>
                 \A key \in RecognisedKeys \cap DOMAIN pending.constraints :
                    Satisfies(pending.slots[i], pending.constraints, key)
        /\ found = ApplyConstraintsToSlots(pending.slots,
                      [k \in RecognisedKeys \cap DOMAIN pending.constraints |->
                          pending.constraints[k]])

\* a slot that starts at the end hour of time_range is dropped, under a map
\* that also holds a false flag and an unknown key
C25_EndHourDropped ==
    /\ phase = "filtered"
    /\ DOMAIN pending.constraints = {"time_range", "deadline", "weekends_only"}
    /\ pending.constraints["time_range"] = <<12, 18>>
    /\ ~pending.constraints["weekends_only"]
    /\ pending.slots = << TimeSlot(At(SearchDay, 13, 0), At(SearchDay, 13, 30)),
                          TimeSlot(At(SearchDay + 5, 18, 0), At(SearchDay + 5, 18, 30)) >>
    /\ found = << TimeSlot(At(SearchDay, 13, 0), At(SearchDay, 13, 30)) >>

----------------------------------------------------------------------------
(* calendar_integration.py: find_meeting_slots, called on its own.  The    *)
(* calendar, the duration, the range and the time preference are drawn in  *)
(* the initial state.                                                      *)

FreeCalendar == <<>>

\* Thursday taken from 8:00 to 16:45, and two meetings in the evening
EveningsTaken ==
    << <<At(Today + 1, 8, 0), At(Today + 1, 16, 45)>>,
       <<At(Today + 1, 18, 0), At(Today + 1, 19, 0)>>,
       <<At(Today + 1, 19, 0), At(Today + 1, 20, 0)>> >>

\* a meeting from 12:00 to 13:00 on each of the coming eight days
LunchEveryDay == [i \in 1..8 |-> <<At(Today + i - 1, 12, 0), At(Today + i - 1, 13, 0)>>]

MeetingCalendars == { FreeCalendar, SomeMeetings, EveningsTaken, LunchEveryDay }

MeetingPreferences ==
    { None, Some("tomorrow"), Some("friday"), Some("saturday"), Some("weekend") }

\* _parse_constraint_time, lines 288-289: the text asks for the weekend
WeekendsOnly(time_preference) ==
    time_preference # None /\ "weekend" \in Lex(time_preference[1]).words

InitMeeting ==
    /\ cal_busy \in MeetingCalendars
    /\ \E backend \in Backends : cal_auth = backend[1] /\ cal_api = backend[2]
    /\ service = cal_auth
    /\ now = At(Today, 10, 0)
    /\ \E duration \in Durations, days \in {1, DefaultRangeDays},
          time_preference \in MeetingPreferences :
          \E parsed_time \in (IF time_preference = None THEN { None }
                              ELSE DateParser(time_preference[1])) :
             req = [duration |-> duration, date_range_days |-> days,
                    time_preference |-> time_preference, parsed_time |-> parsed_time]
    /\ found = <<>>
    /\ sessions = [id \in SessionIds |-> NoSession]
    /\ NoConversation
    /\ phase = "start"

\* one call of find_meeting_slots
FindMeetingSlotsCall ==
    /\ phase = "start"
    /\ found' = FindMeetingSlots(req.duration, req.date_range_days, req.time_preference,
                                 req.parsed_time)
    /\ service' = ServiceAfterBusyTimes
    /\ last_call' = Called("find_meeting_slots", "", req, found')
    /\ phase' = "meeting"
    /\ UNCHANGED <<cal_busy, cal_events, cal_auth, cal_api, now, sessions, reply,
                   reported, affirmed, pending, in_flight, served, req>>

NextMeeting == FindMeetingSlotsCall

SpecMeeting == InitMeeting /\ [][NextMeeting]_vars

\* at most 10 slots come back, and more than 10 were found in some searches
AtMostTenSlots == phase = "meeting" => Len(found) <= MaxSlotsReturned

\* C26: find_meeting_slots returns at most 10 slots, in strictly increasing
\* order of their start and with no two of them overlapping.
C26_OrderingAndCap ==
    phase = "meeting" =>
        /\ Len(found) <= MaxSlotsReturned
        /\ \A i, j \in 1..Len(found) :
              i < j => /\ found[i].start_time < found[j].start_time
                       /\ found[i].end_time <= found[j].start_time

\* no slot that comes back starts on a Saturday or a Sunday
NoWeekendSlot ==
    phase = "meeting" => \A i \in 1..Len(found) : Weekday(found[i].start_time) < 5

\* C27: no slot starts on a Saturday or a Sunday unless the weekend is asked
\* for; when it is, the weekend days are searched and a free weekend in the
\* range yields slots.
C27_WeekendHandling ==
    phase = "meeting" =>
        /\ ~WeekendsOnly(req.time_preference) =>
              \A i \in 1..Len(found) : Weekday(found[i].start_time) < 5
        /\ (/\ WeekendsOnly(req.time_preference)
            /\ cal_busy = FreeCalendar
            /\ cal_auth /\ cal_api
            \* the search runs over the coming seven days
            /\ req.parsed_time = None
            /\ req.date_range_days = DefaultRangeDays) =>
              \E i \in 1..Len(found) : Weekday(found[i].start_time) >= 5

----------------------------------------------------------------------------
(* time_parser.py: parse_time_expression and parse_deadline_request,       *)
(* called on their own.  A confidence is counted in tenths: 8 is 0.8.      *)
(* The texts are lower case and stripped, as line 72 leaves them.          *)

\* TimeParseResult.__init__
TimeParseResult(start_datetime, end_datetime, duration_minutes, constraints, confidence, needs_clarification, clarification_needed) ==
    [start_datetime |-> start_datetime, end_datetime |-> end_datetime,
     duration_minutes |-> duration_minutes, constraints |-> constraints,
     confidence |-> confidence, needs_clarification |-> needs_clarification,
     clarification_needed |-> clarification_needed]

\* TimeParseResult(confidence=0.0)
NoTimeFound == TimeParseResult(None, None, None, <<>>, 0, FALSE, "")

RelativeText(qualifier, unit) == qualifier \o " " \o unit

WeekdayTexts == { RelativeText(q, d) : q \in {"next", "this"}, d \in DayNameSet }

\* the constraint phrases, each said on its own
ConstraintTexts ==
    { "morning", "afternoon", "evening", "night", "not too early", "not too late",
      "weekday", "weekend", "not on friday" }

\* "<N> <minutes|hours> before/after <event>"
OffsetEventTexts == { "45 minutes before my flight", "2 hours after my flight" }

\* "<N> <days|weeks> from now"
FromNowTexts == { "1 day from now", "3 days from now", "1 week from now", "2 weeks from now" }

TimeTexts ==
    WeekdayTexts \cup ConstraintTexts \cup OffsetEventTexts \cup FromNowTexts \cup
    { "next week", "this week", "tomorrow", "before my flight", "sometime" }

\* what the patterns of the parser find in a text:
\*   relative    the unit of the first relative_time pattern that matches, and
\*               whether "this" and "next" occur in the text
\*   contextual  the groups of the first contextual_time pattern that matches
\*   constraint  the constraint group of the constraint_time pattern that matches
\*   day         "today" or "tomorrow", when the text holds it
TimeLex(u) ==
    CASE u \in WeekdayTexts ->
           [relative |-> Some([unit |-> CHOOSE d \in DayNameSet :
                                           u \in {RelativeText("next", d),
                                                  RelativeText("this", d)},
                               this |-> \E d \in DayNameSet : u = RelativeText("this", d),
                               next |-> \E d \in DayNameSet : u = RelativeText("next", d)]),
            contextual |-> None, constraint |-> None, day |-> None]
      [] u \in {"next week", "this week"} ->
           [relative |-> Some([unit |-> "week", this |-> u = "this week",
                               next |-> u = "next week"]),
            contextual |-> None, constraint |-> None, day |-> None]
      [] u \in FromNowTexts ->
           [relative |-> Some([unit |-> CASE u = "1 day from now" -> "day"
                                          [] u = "3 days from now" -> "days"
                                          [] u = "1 week from now" -> "week"
                                          [] u = "2 weeks from now" -> "weeks",
                               this |-> FALSE, next |-> FALSE,
                               count |-> CASE u = "1 day from now" -> 1
                                           [] u = "3 days from now" -> 3
                                           [] u = "1 week from now" -> 1
                                           [] u = "2 weeks from now" -> 2]),
            contextual |-> None, constraint |-> None, day |-> None]
      [] u = "before my flight" ->
           [relative |-> None,
            contextual |-> Some([context |-> "before", event |-> "my flight",
                                 duration |-> None]),
            constraint |-> None, day |-> None]
      [] u = "45 minutes before my flight" ->
           [relative |-> None,
            contextual |-> Some([context |-> "before", event |-> "my flight",
                                 duration |-> Some([num |-> 45, unit |-> "minutes"])]),
            constraint |-> None, day |-> None]
      [] u = "2 hours after my flight" ->
           [relative |-> None,
            contextual |-> Some([context |-> "after", event |-> "my flight",
                                 duration |-> Some([num |-> 2, unit |-> "hours"])]),
            constraint |-> None, day |-> None]
      [] u \in {"morning", "afternoon", "evening", "night", "weekday", "weekend"} ->
           [relative |-> None, contextual |-> None, constraint |-> Some(u), day |-> None]
      [] u = "not too early" ->
           [relative |-> None, contextual |-> None, constraint |-> Some("too early"),
            day |-> None]
      [] u = "not too late" ->
           [relative |-> None, contextual |-> None, constraint |-> Some("too late"),
            day |-> None]
      [] u = "not on friday" ->
           [relative |-> None, contextual |-> None, constraint |-> Some("on friday"),
            day |-> None]
      [] u = "tomorrow" ->
           [relative |-> None, contextual |-> None, constraint |-> None,
            day |-> Some("tomorrow")]
      [] OTHER ->
           [relative |-> None, contextual |-> None, constraint |-> None, day |-> None]

\* the weekday branch with "next" read as "this" is read
ParseRelativeTimeNextAsThis(u) ==
    IF TimeLex(u).relative = None THEN NoTimeFound
    ELSE IF TimeLex(u).relative[1].unit \in {"week", "weeks"}
    THEN IF TimeLex(u).relative[1].next
         THEN TimeParseResult(Some(now + 7 * MinutesPerDay), Some(now + 14 * MinutesPerDay),
                              None, <<>>, 8, FALSE, "")
         ELSE TimeParseResult(Some(now), Some(now + 7 * MinutesPerDay),
                              None, <<>>, 8, FALSE, "")
    ELSE IF TimeLex(u).relative[1].unit \in {"day", "days"} THEN NoTimeFound
    ELSE LET offset == DayIndex(TimeLex(u).relative[1].unit) - Weekday(now)
             days_ahead == IF offset <= 0 THEN offset + 7 ELSE offset
         IN TimeParseResult(Some(now + days_ahead * MinutesPerDay),
                            Some(now + days_ahead * MinutesPerDay + 8 * 60),
                            None, <<>>, 8, FALSE, "")

\* _parse_relative_time, lines 95-185, for weeks, weekdays and days.  Every
\* match has the group "unit", so the branch of line 104 is taken: "week" and
\* "weeks" give the week from now whatever the number; "day" and "days" set no
\* start_time, line 147 raises UnboundLocalError, line 181 catches it, and no
\* later pattern matches.
ParseRelativeTime(u) ==
    IF TimeLex(u).relative = None THEN NoTimeFound
    ELSE IF TimeLex(u).relative[1].unit \in {"week", "weeks"}
    THEN IF TimeLex(u).relative[1].next
         THEN TimeParseResult(Some(now + 7 * MinutesPerDay), Some(now + 14 * MinutesPerDay),
                              None, <<>>, 8, FALSE, "")
         ELSE TimeParseResult(Some(now), Some(now + 7 * MinutesPerDay),
                              None, <<>>, 8, FALSE, "")
    ELSE IF TimeLex(u).relative[1].unit \in {"day", "days"} THEN NoTimeFound
    ELSE LET offset == DayIndex(TimeLex(u).relative[1].unit) - Weekday(now)
             days_ahead == IF TimeLex(u).relative[1].this
                           THEN (IF offset <= 0 THEN offset + 7 ELSE offset)
                           ELSE IF TimeLex(u).relative[1].next THEN offset + 7
                           ELSE (IF offset <= 0 THEN offset + 7 ELSE offset)
         IN TimeParseResult(Some(now + days_ahead * MinutesPerDay),
                            Some(now + days_ahead * MinutesPerDay + 8 * 60),
                            None, <<>>, 8, FALSE, "")

\* line 245: the clarification that names the event the calendar does not hold
EventNotFound(event_description) ==
    "I couldn't find an event matching '" \o event_description \o
    "' in your calendar. Could you provide more details or check the event name?"

\* lines 209 and 227: the minutes of "<N> minutes" and of "<N> hours"
ContextMinutes(duration) ==
    IF duration.unit = "minutes" THEN duration.num ELSE duration.num * 60

\* lines 206-233: the window before or after the reference event
ContextWindow(context, duration, reference_event) ==
    IF context = "before"
    THEN IF duration # None
         THEN <<reference_event.start_time - 15 - ContextMinutes(duration[1]),
                reference_event.start_time - 15>>
         ELSE <<reference_event.start_time - 30 - 4 * 60, reference_event.start_time - 30>>
    ELSE IF duration # None
         THEN <<reference_event.end_time + 15,
                reference_event.end_time + 15 + ContextMinutes(duration[1])>>
         ELSE <<reference_event.end_time + 30, reference_event.end_time + 30 + 4 * 60>>

\* _parse_contextual_time, lines 187-255; reference_event is what
\* find_existing_event returns
ParseContextualTime(u, reference_event) ==
    IF TimeLex(u).contextual = None THEN NoTimeFound
    ELSE IF reference_event = None
    THEN TimeParseResult(None, None, None, <<>>, 3, TRUE,
                         EventNotFound(TimeLex(u).contextual[1].event))
    ELSE TimeParseResult(Some(ContextWindow(TimeLex(u).contextual[1].context,
                                            TimeLex(u).contextual[1].duration,
                                            reference_event[1])[1]),
                         Some(ContextWindow(TimeLex(u).contextual[1].context,
                                            TimeLex(u).contextual[1].duration,
                                            reference_event[1])[2]),
                         None, [reference_event |-> reference_event[1].summary], 9, FALSE, "")

\* lines 293-299: the days a text with "not" names
ExcludedDays(u) == IF u = "not on friday" THEN <<"friday">> ELSE <<>>

\* lines 265-290: what a constraint phrase sets, and the confidence it gives.
\* "on friday" sets nothing at this place.
ConstraintOf(constraint) ==
    CASE constraint = "morning" -> [constraints |-> [time_range |-> <<6, 12>>], confidence |-> 6]
      [] constraint = "afternoon" -> [constraints |-> [time_range |-> <<12, 18>>], confidence |-> 6]
      [] constraint = "evening" -> [constraints |-> [time_range |-> <<18, 22>>], confidence |-> 6]
      [] constraint = "night" -> [constraints |-> [time_range |-> <<22, 6>>], confidence |-> 6]
      [] constraint = "too early" -> [constraints |-> [not_before |-> 9], confidence |-> 5]
      [] constraint = "too late" -> [constraints |-> [not_after |-> 18], confidence |-> 5]
      [] constraint = "weekday" -> [constraints |-> [weekdays_only |-> TRUE], confidence |-> 5]
      [] constraint = "weekend" -> [constraints |-> [weekends_only |-> TRUE], confidence |-> 5]
      [] OTHER -> [constraints |-> <<>>, confidence |-> 0]

\* _parse_constraint_time, lines 257-314: the constraints of the phrase, then
\* the excluded days, then the default window of 7 days from one hour from now
ParseConstraintTime(u) ==
    IF TimeLex(u).constraint = None THEN NoTimeFound
    ELSE IF ExcludedDays(u) # <<>>
    THEN TimeParseResult(Some(now + 60), Some(now + 60 + 7 * MinutesPerDay), None,
                         Merge([excluded_days |-> ExcludedDays(u)],
                               ConstraintOf(TimeLex(u).constraint[1]).constraints),
                         Max(ConstraintOf(TimeLex(u).constraint[1]).confidence, 6),
                         FALSE, "")
    ELSE IF ConstraintOf(TimeLex(u).constraint[1]).constraints = <<>> THEN NoTimeFound
    ELSE TimeParseResult(Some(now + 60), Some(now + 60 + 7 * MinutesPerDay), None,
                         ConstraintOf(TimeLex(u).constraint[1]).constraints,
                         ConstraintOf(TimeLex(u).constraint[1]).confidence, FALSE, "")

\* _parse_specific_time, lines 316-359; parsed_date is dateparser's answer
ParseSpecificTime(u, parsed_date) ==
    IF TimeLex(u).day = Some("tomorrow")
    THEN TimeParseResult(Some(ReplaceHour(now + MinutesPerDay, 9)),
                         Some(ReplaceHour(now + MinutesPerDay, 17)), None, <<>>, 9,
                         FALSE, "")
    ELSE IF parsed_date = None THEN NoTimeFound
    ELSE IF parsed_date[1] % MinutesPerDay = 0
    THEN TimeParseResult(Some(ReplaceHour(parsed_date[1], 9)),
                         Some(ReplaceHour(parsed_date[1], 17)), None, <<>>, 7, FALSE, "")
    ELSE TimeParseResult(parsed_date, Some(parsed_date[1] + 60), None, <<>>, 7, FALSE, "")

\* _fallback_parse
FallbackParse(u, parsed_date) ==
    IF parsed_date # None
    THEN TimeParseResult(parsed_date, Some(parsed_date[1] + 60), None, <<>>, 4, FALSE, "")
    ELSE TimeParseResult(None, None, None, <<>>, 0, TRUE,
                         "I couldn't understand the time you mentioned. Could you please specify it differently?")

\* parse_time_expression, lines 70-93
ParseTimeExpression(u, reference_event, parsed_date) ==
    IF ParseRelativeTime(u).confidence > 7 THEN ParseRelativeTime(u)
    ELSE IF ParseContextualTime(u, reference_event).confidence > 7
    THEN ParseContextualTime(u, reference_event)
    ELSE IF ParseConstraintTime(u).confidence > 5 THEN ParseConstraintTime(u)
    ELSE IF ParseSpecificTime(u, parsed_date).confidence > 5
    THEN ParseSpecificTime(u, parsed_date)
    ELSE FallbackParse(u, parsed_date)

\* the event find_existing_event finds for "my flight", if there is one
ReferenceEvents ==
    { None, Some([summary |-> "Flight", start_time |-> At(Today + 2, 18, 0),
                  end_time |-> At(Today + 2, 21, 0)]) }

\* dateparser's answers: no date, a date without a time, a date with a time
ParsedDates == { None, Some(At(Today + 3, 0, 0)), Some(At(Today + 3, 14, 30)) }

DeadlineTexts == { ScenarioDText, DeadlineText, "tomorrow" }

\* the parser is called on each day of the week, in the morning and at night
InitParser ==
    /\ cal_busy = SomeMeetings
    /\ cal_auth = TRUE
    /\ cal_api = TRUE
    /\ service = TRUE
    /\ \E i \in 0..6, t \in { <<10, 0>>, <<23, 30>> } : now = At(SearchDay + i, t[1], t[2])
    /\ req = NoReq
    /\ found = <<>>
    /\ sessions = [id \in SessionIds |-> NoSession]
    /\ NoConversation
    /\ phase = "start"

ParseTimeExpressionCall ==
    /\ \E u \in TimeTexts, reference_event \in ReferenceEvents, parsed_date \in ParsedDates :
          last_call' = Called("parse_time_expression", "",
                              [text |-> u, reference_event |-> reference_event,
                               parsed_date |-> parsed_date],
                              ParseTimeExpression(u, reference_event, parsed_date))
    /\ phase' = "parse_time_expression"
    /\ UNCHANGED <<calendar_vars, sessions, reply, reported, affirmed, pending,
                   in_flight, served, req, found>>

ParseDeadlineRequestCall ==
    /\ \E u \in DeadlineTexts :
          last_call' = Called("parse_deadline_request", "", [text |-> u],
                              ParseDeadlineRequest(u))
    /\ phase' = "parse_deadline_request"
    /\ UNCHANGED <<calendar_vars, sessions, reply, reported, affirmed, pending,
                   in_flight, served, req, found>>

(* The three readings of a duration: parse_duration (time_parser.py), the  *)
(* flow manager's _extract_duration, and the duration branch of            *)
(* _fallback_response.                                                     *)

DurationTexts ==
    { "30 minutes", "1 minute", "45 mins", "1 hour", "2 hours", "1 hr", "2 hrs" }

\* parse_duration, lines 380-423: the first pattern matches every text of the
\* model; float() and int() are exact on figures below 2^53
ParseDuration(u) ==
    IF Lex(u).duration = None THEN None
    ELSE IF Lex(u).duration[1].unit \in {"minute", "minutes", "min", "mins", "m"}
    THEN Some(Lex(u).duration[1].num)
    ELSE IF Lex(u).duration[1].unit \in {"hour", "hours", "hr", "hrs", "h"}
    THEN Some(Lex(u).duration[1].num * 60)
    ELSE None

\* conversation_manager.py, lines 257-262: the duration the fallback stores
FallbackDurationMinutes(u) ==
    IF Lex(u).duration = None THEN None ELSE Some(DurationMinutes(Lex(u).duration[1]))

ParseDurationCall ==
    /\ \E u \in DurationTexts :
          last_call' = Called("parse_duration", "", [text |-> u], ParseDuration(u))
    /\ phase' = "parse_duration"
    /\ UNCHANGED <<calendar_vars, sessions, reply, reported, affirmed, pending,
                   in_flight, served, req, found>>

ExtractDurationCall ==
    /\ \E u \in DurationTexts :
          last_call' = Called("_extract_duration", "", [text |-> u], ExtractDuration(u))
    /\ phase' = "_extract_duration"
    /\ UNCHANGED <<calendar_vars, sessions, reply, reported, affirmed, pending,
                   in_flight, served, req, found>>

FallbackDurationCall ==
    /\ \E u \in DurationTexts :
          last_call' = Called("_fallback_response duration", "", [text |-> u],
                              FallbackDurationMinutes(u))
    /\ phase' = "_fallback_response duration"
    /\ UNCHANGED <<calendar_vars, sessions, reply, reported, affirmed, pending,
                   in_flight, served, req, found>>

NextParser ==
    \/ ParseTimeExpressionCall
    \/ ParseDeadlineRequestCall
    \/ ParseDurationCall
    \/ ExtractDurationCall
    \/ FallbackDurationCall

SpecParser == InitParser /\ [][NextParser]_vars

\* one of the strategies of parse_time_expression found something in the text
StrategyMatched(u, reference_event, parsed_date) ==
    \/ ParseRelativeTime(u).confidence > 0
    \/ ParseContextualTime(u, reference_event).confidence > 0
    \/ ParseConstraintTime(u).confidence > 0
    \/ ParseSpecificTime(u, parsed_date).confidence > 0
    \/ FallbackParse(u, parsed_date).confidence > 0

\* every confidence lies between 0 and 1, and a result of parse_time_expression
\* with confidence 0 asks for clarification, with a text
ConfidenceInRange ==
    /\ last_call.call \in {"parse_time_expression", "parse_deadline_request"} =>
          last_call.value.confidence \in 0..10
    /\ (last_call.call = "parse_time_expression" /\ last_call.value.confidence = 0) =>
          /\ last_call.value.needs_clarification
          /\ last_call.value.clarification_needed # ""

\* C28: every result of parse_time_expression and parse_deadline_request has a
\* confidence between 0 and 1; the confidence is 0 only when no strategy matched
\* the text; a result of parse_time_expression with confidence 0 asks for
\* clarification, with a text.
C28_ConfidenceBounds ==
    /\ ConfidenceInRange
    /\ (last_call.call = "parse_time_expression" /\ last_call.value.confidence = 0) =>
          ~StrategyMatched(last_call.args.text, last_call.args.reference_event,
                           last_call.args.parsed_date)
    /\ (last_call.call = "parse_deadline_request" /\ last_call.value.confidence = 0) =>
          Lex(last_call.args.text).deadline = None

\* the weekday the text names
NamedWeekday(u) == DayIndex(TimeLex(u).relative[1].unit)

ComingFriday == CHOOSE day \in DateOf(now) + 1 .. DateOf(now) + 7 : day % 7 = 4

\* C30 as the specification has it: for Scenario D parse_deadline_request gives
\* duration_minutes = 45, must_end_before = Friday 17:30, a search window that
\* starts Friday 09:30, and confidence 0.9.
C30_ScenarioD ==
    (last_call.call = "parse_deadline_request" /\ last_call.args.text = ScenarioDText) =>
        /\ last_call.value.duration_minutes = Some(45)
        /\ last_call.value.must_end_before = Some(At(ComingFriday, 17, 30))
        /\ last_call.value.start_datetime = Some(At(ComingFriday, 9, 30))
        /\ last_call.value.confidence = 9

\* C30, amended: for Scenario D parse_deadline_request gives duration_minutes =
\* 45, must_end_before = Friday 17:30 (the deadline less 30 minutes), a search
\* window that starts Friday 10:00 (the deadline less 8 hours), and confidence
\* 0.9.
C30_ScenarioDFromTen ==
    (last_call.call = "parse_deadline_request" /\ last_call.args.text = ScenarioDText) =>
        /\ last_call.value.duration_minutes = Some(45)
        /\ last_call.value.must_end_before = Some(At(ComingFriday, 17, 30))
        /\ last_call.value.start_datetime = Some(At(ComingFriday, 10, 0))
        /\ last_call.value.confidence = 9

\* Scenario D asked on a Friday night: the Friday of the week after
C30_ScenarioDOnFriday ==
    /\ now = At(SearchDay + 3, 23, 30)
    /\ last_call.call = "parse_deadline_request"
    /\ last_call.args.text = ScenarioDText
    /\ last_call.value.must_end_before = Some(At(SearchDay + 10, 17, 30))
    /\ last_call.value.duration_minutes = Some(45)

\* what each constraint phrase is to give
ExpectedConstraints(u) ==
    CASE u = "morning" -> [time_range |-> <<6, 12>>]
      [] u = "afternoon" -> [time_range |-> <<12, 18>>]
      [] u = "evening" -> [time_range |-> <<18, 22>>]
      [] u = "night" -> [time_range |-> <<22, 6>>]
      [] u = "not too early" -> [not_before |-> 9]
      [] u = "not too late" -> [not_after |-> 18]
      [] u = "weekday" -> [weekdays_only |-> TRUE]
      [] u = "weekend" -> [weekends_only |-> TRUE]
      [] u = "not on friday" -> [excluded_days |-> <<"friday">>]

\* C31: for every constraint phrase said on its own (no higher strategy
\* matches), parse_time_expression returns the constraint-only result: the
\* constraints of the phrase, the default window of 7 days that starts one hour
\* from now, and a confidence between 0.5 and 0.6.
C31_ConstraintOnly ==
    (last_call.call = "parse_time_expression" /\ last_call.args.text \in ConstraintTexts) =>
        /\ last_call.value.constraints = ExpectedConstraints(last_call.args.text)
        /\ last_call.value.start_datetime = Some(now + 60)
        /\ last_call.value.end_datetime = Some(now + 60 + 7 * MinutesPerDay)
        /\ last_call.value.confidence \in 5..6

\* the phrases of confidence 0.6 are returned as the constraint strategy leaves
\* them (Scenario C among them)
ConstraintOnlyAboveThreshold ==
    (/\ last_call.call = "parse_time_expression"
     /\ last_call.args.text \in {"morning", "afternoon", "evening", "night", "not on friday"}) =>
        /\ last_call.value.constraints = ExpectedConstraints(last_call.args.text)
        /\ last_call.value.start_datetime = Some(now + 60)
        /\ last_call.value.end_datetime = Some(now + 60 + 7 * MinutesPerDay)
        /\ last_call.value.confidence = 6

\* C32: for "<N> <minutes|hours> before/after <event>" with no such event in the
\* calendar, the result parse_time_expression returns asks for clarification
\* and its text names the missing event.
C32_MissingReferenceEvent ==
    (/\ last_call.call = "parse_time_expression"
     /\ last_call.args.text \in OffsetEventTexts
     /\ last_call.args.reference_event = None) =>
        /\ last_call.value.needs_clarification
        /\ last_call.value.clarification_needed =
              EventNotFound(TimeLex(last_call.args.text).contextual[1].event)

\* with the event in the calendar the window is set off from it, with confidence 0.9
ReferenceEventFound ==
    (/\ last_call.call = "parse_time_expression"
     /\ last_call.args.text \in OffsetEventTexts
     /\ last_call.args.reference_event # None) =>
        /\ last_call.value.confidence = 9
        /\ ~last_call.value.needs_clarification
        /\ last_call.args.text = "45 minutes before my flight" =>
              /\ last_call.value.end_datetime =
                    Some(last_call.args.reference_event[1].start_time - 15)
              /\ last_call.value.start_datetime =
                    Some(last_call.args.reference_event[1].start_time - 60)

\* the offset of the text, in minutes
FromNowOffset(u) ==
    TimeLex(u).relative[1].count *
        (IF TimeLex(u).relative[1].unit \in {"week", "weeks"} THEN 7 * MinutesPerDay
         ELSE MinutesPerDay)

\* C33: for "<N> <days|weeks> from now" parse_time_expression returns the result
\* of the relative-calendar strategy: start = now + N units, with confidence 0.8.
C33_RelativeOffsets ==
    (last_call.call = "parse_time_expression" /\ last_call.args.text \in FromNowTexts) =>
        /\ last_call.value.start_datetime = Some(now + FromNowOffset(last_call.args.text))
        /\ last_call.value.confidence = 8

DurationCalls == {"parse_duration", "_extract_duration", "_fallback_response duration"}

\* the minutes a duration text means: N for minutes and mins, 60 N for hours
\* and hrs
MinutesMeant(u) ==
    IF Lex(u).duration[1].unit \in {"hour", "hours", "hr", "hrs"}
    THEN 60 * Lex(u).duration[1].num
    ELSE Lex(u).duration[1].num

\* C34: parse_duration returns N for "N minutes" and "N mins" and 60 N for "N
\* hour(s)" and "N hr(s)", and _extract_duration and the duration branch of
\* _fallback_response return the same number of minutes for the same text.
C34_DurationParsing ==
    last_call.call \in DurationCalls =>
        /\ last_call.value = Some(MinutesMeant(last_call.args.text))
        /\ last_call.value = ParseDuration(last_call.args.text)

\* parse_duration and _extract_duration do return these minutes
ParseAndExtractAgree ==
    last_call.call \in {"parse_duration", "_extract_duration"} =>
        last_call.value = Some(MinutesMeant(last_call.args.text))

\* the session's last turn was a deadline search that offered slots
DeadlineOffer(id) ==
    /\ sessions[id] # NoSession
    /\ sessions[id].conversation_history # <<>>
    /\ IsDeadlineSearch(Some(LastInput(sessions[id])))
    /\ reply[id].options # <<>>
    /\ found # <<>>

\* the deadline the session's last input names
DeadlineOf(id) == DeadlineDatetime(Lex(LastInput(sessions[id])).deadline[1])

\* C35: in a deadline scenario every slot the agent offers ends at or before
\* must_end_before (the deadline less 30 minutes), starts no earlier than 8
\* hours before the deadline, and the slots are offered latest first.
C35_DeadlineWindow ==
    \A id \in SessionIds :
        DeadlineOffer(id) =>
            /\ \A i \in 1..Len(reply[id].options) :
                  /\ reply[id].options[i].end_time <= DeadlineOf(id) - DeadlineBufferMinutes
                  /\ reply[id].options[i].start_time >= DeadlineOf(id) - DeadlineSearchHours * 60
            /\ \A i, j \in 1..Len(reply[id].options) :
                  i < j => reply[id].options[i].start_time >= reply[id].options[j].start_time

\* the offered slots do end by must_end_before and are offered latest first
DeadlineOffersEndInTime ==
    \A id \in SessionIds :
        DeadlineOffer(id) =>
            /\ \A i \in 1..Len(reply[id].options) :
                  reply[id].options[i].end_time <= DeadlineOf(id) - DeadlineBufferMinutes
            /\ \A i, j \in 1..Len(reply[id].options) :
                  i < j => reply[id].options[i].start_time >= reply[id].options[j].start_time

\* C36: every slot find_meeting_slots gets from find_available_slots(duration,
\* start_date, end_date) starts at or after start_date and ends at or before
\* end_date: the default search returns no slot that starts before one hour
\* from now, and a search with a window returns no slot outside the window.
C36_SearchRangeContainment ==
    phase = "meeting" =>
        \A i \in 1..Len(found) :
            /\ found[i].start_time >=
                  MeetingWindow(req.date_range_days, req.time_preference, req.parsed_time)[1]
            /\ found[i].end_time <=
                  MeetingWindow(req.date_range_days, req.time_preference, req.parsed_time)[2]

\* the slots do lie on the days of the range
OnDaysOfRange ==
    phase = "meeting" =>
        \A i \in 1..Len(found) :
            /\ DateOf(found[i].start_time) >=
                  DateOf(MeetingWindow(req.date_range_days, req.time_preference,
                                       req.parsed_time)[1])
            /\ DateOf(found[i].start_time) <=
                  DateOf(MeetingWindow(req.date_range_days, req.time_preference,
                                       req.parsed_time)[2])

\* the event the step has added to the calendar
NewEvent == cal_events'[Len(cal_events')]

\* the session took the turn and the turn created a calendar event
Booked(id) == TookTurn(id) /\ Len(cal_events') = Len(cal_events) + 1

\* C37: whenever _schedule_meeting creates a calendar event for a selected
\* slot, the event starts at the slot's start_time and ends at the slot's
\* end_time, whatever turns led to the selection.
C37_EventMatchesSlot ==
    [][\A id \in SessionIds :
          Booked(id) =>
              /\ sessions'[id].meeting_request.selected_slot # None
              /\ NewEvent.start_time =
                    sessions'[id].meeting_request.selected_slot[1].start_time
              /\ NewEvent.end_time =
                    sessions'[id].meeting_request.selected_slot[1].end_time]_vars

\* the event does start at the slot's start_time, and lasts the stored duration
EventStartsAtSlot ==
    [][\A id \in SessionIds :
          Booked(id) =>
              /\ sessions'[id].meeting_request.selected_slot # None
              /\ NewEvent.start_time =
                    sessions'[id].meeting_request.selected_slot[1].start_time
              /\ sessions'[id].meeting_request.duration_minutes =
                    Some(NewEvent.end_time - NewEvent.start_time)]_vars

----------------------------------------------------------------------------
(* One conversation over several turns of _process_user_input: in each     *)
(* turn the model answers, or its call fails and _fallback_response        *)
(* answers.                                                                *)

MaxAgentTurns == 5

TurnTexts == { "schedule a meeting", "30 minutes", "0 minutes", "tomorrow", "2" }

\* what the model answers when its call succeeds
TurnAnswers == { LLM_PLAIN }

\* the calendar works, or its API calls fail
InitTurns ==
    /\ cal_busy = SomeMeetings
    /\ cal_auth = TRUE
    /\ cal_api \in BOOLEAN
    /\ service = cal_auth
    /\ now = At(Today, 10, 0)
    /\ req = NoReq
    /\ found = <<>>
    /\ sessions = [id \in SessionIds |-> IF id = "s1" THEN NewSession ELSE NoSession]
    /\ NoConversation
    /\ phase = "start"

\* a turn the model answers
ModelAnswers ==
    /\ Len(sessions["s1"].conversation_history) < MaxAgentTurns
    /\ \E u \in TurnTexts, llm \in TurnAnswers :
          \E parsed_time \in ParsedTimes(sessions, "s1", u, llm) :
             Chat("s1", u, llm, parsed_time)
    /\ phase' = "model"
    /\ UNCHANGED <<pending, in_flight, last_call, served>>

\* a turn in which the call of the model fails
ModelFails ==
    /\ Len(sessions["s1"].conversation_history) < MaxAgentTurns
    /\ \E u \in TurnTexts :
          \E parsed_time \in ParsedTimes(sessions, "s1", u, LLM_FAILS) :
             Chat("s1", u, LLM_FAILS, parsed_time)
    /\ phase' = "fallback"
    /\ UNCHANGED <<pending, in_flight, last_call, served>>

NextTurns == ModelAnswers \/ ModelFails

SpecTurns == InitTurns /\ [][NextTurns]_vars

\* the calendar events that start when the slot starts
EventsFor(slot) == { i \in 1..Len(cal_events) : cal_events[i].start_time = slot.start_time }

\* a Completed session has a selected slot, which is one of its available
\* slots, and one calendar event was created for it
CompletedHasItsSlot ==
    \A id \in SessionIds :
        StateOf(sessions, id) = COMPLETED =>
            /\ sessions[id].meeting_request.selected_slot # None
            /\ InList(sessions[id].meeting_request.selected_slot[1],
                      sessions[id].meeting_request.available_slots)
            /\ Cardinality(EventsFor(sessions[id].meeting_request.selected_slot[1])) = 1

\* a selection that could not be scheduled leaves the session as it was
FailedCreationChangesNothing ==
    [][\A id \in SessionIds :
          (TookTurn(id) /\ reply'[id].text = SCHEDULE_TROUBLE) =>
              /\ sessions'[id].state = sessions[id].state
              /\ sessions'[id].meeting_request = sessions[id].meeting_request
              /\ cal_events' = cal_events]_vars

\* C38: over every sequence of agent turns, a session in Completed has its
\* selected_slot set, the slot is an element of its available_slots, and
\* exactly one calendar event was created for it; a selection for which no
\* event could be created leaves the state, selected_slot and available_slots
\* unchanged.
C38_CompletedInvariant == []CompletedHasItsSlot /\ FailedCreationChangesNothing

\* C39: after every turn _fallback_response handles, a reply that asks for the
\* duration of the meeting ("How long should the meeting be?") leaves the
\* session in WAITING_FOR_DURATION.
C39_PromptMatchesState ==
    \A id \in SessionIds :
        (/\ sessions[id] # NoSession
         /\ sessions[id].conversation_history # <<>>
         /\ reply[id].text = ASK_DURATION) =>
            sessions[id].state = WAITING_FOR_DURATION

\* the question does leave the session in WAITING_FOR_DURATION when the input
\* holds a scheduling keyword
PromptAfterKeyword ==
    \A id \in SessionIds :
        (/\ sessions[id] # NoSession
         /\ sessions[id].conversation_history # <<>>
         /\ reply[id].text = ASK_DURATION
         /\ AnyWordIn({"schedule", "meeting", "book", "find", "appointment"},
                      LastInput(sessions[id]))) =>
            sessions[id].state = WAITING_FOR_DURATION

\* every search a turn runs is run with a positive duration
SearchDurationPositive == req # NoReq => req.duration > 0

\* C40: over every sequence of turns the duration_minutes of a MeetingRequest
\* is unset or a positive integer, and no search is run with a duration that
\* is not positive.
C40_PositiveDuration ==
    /\ \A id \in SessionIds :
          sessions[id] # NoSession =>
              \/ sessions[id].meeting_request.duration_minutes = None
              \/ sessions[id].meeting_request.duration_minutes[1] > 0
    /\ SearchDurationPositive

====
